---- MODULE Spec2Model ----
(***************************************************************************)
(* A model of the adaptive ingestion / retrieval core of PdfRag:           *)
(*   - ResourceManager   (utils/resource_manager.py)   : SpecGov           *)
(*   - BatchProcessor    (utils/async_processor.py)    : SpecBatch, SpecEmb*)
(*   - GraphRAGService   (app/service/GraphRAGService.py): SpecKG          *)
(*   - SearchService     (app/service/SearchService.py): SpecRRF           *)
(* Each specification drives one component; the variables of the other     *)
(* components keep their initial value.                                    *)
(***************************************************************************)
EXTENDS Integers, Sequences, FiniteSets, TLC

VARIABLES
    \* ---- ResourceManager ----
    adaptive_config,   \* self.adaptive_config
    active_tasks,      \* self.active_tasks : task_id -> record
    thread_pool,       \* self.thread_pool : 0 = None, else max_workers of the pool
    is_monitoring,     \* self.is_monitoring
    lock,              \* self._lock : "free" or the name of the holder
    future,            \* state of the Future held in the record of each task id
    tpc,               \* position of the wrapped() closure of each task id
    ret,               \* the last submit_task / cancel_task that returned: [op, value]
    \* ---- AsyncProcessor / BatchProcessor ----
    batch_size,        \* BatchProcessor.batch_size
    task_queue,        \* AsyncProcessor.task_queue
    created_at,        \* ProcessingTask.created_at of each task (-1: not created yet)
    handed_at,         \* time at which a worker called process_task(task) (-1: not yet)
    pending_tasks,     \* BatchProcessor.pending_tasks
    processing_lock,   \* BatchProcessor.processing_lock : 0 or the worker holding it
    wpc,               \* position of each _worker coroutine
    wtask,             \* the task each worker holds (0: none)
    wstart,            \* start_time of the worker's _wait_for_batch
    now,               \* the clock read by time.time() / datetime.now()
    flushes,           \* the batches taken by _process_batch, in order
    result_cache,      \* AsyncProcessor.result_cache : task_id -> result
    \* ---- BatchProcessor._process_embedding_batch ----
    emb_device,        \* BatchProcessor.device : "cpu" or "cuda"
    emb_pending,       \* BatchProcessor.pending_tasks of the 'embedding' window
    emb_batch_size,    \* BatchProcessor.batch_size of the window
    emb_tasks,         \* batch_tasks: the batch handed to _process_embedding_batch
    emb_results,       \* the list _process_embedding_batch returned
    emb_pc,            \* "call" before the call, "done" after it
    \* ---- GraphRAGService._deduplicate_entities ----
    dd_in,             \* the entity list handed to _deduplicate_entities
    dd_once,           \* _deduplicate_entities(dd_in)
    dd_twice,          \* _deduplicate_entities(dd_once)
    dd_pc,             \* "in", "once", "twice"
    \* ---- knowledge graph: GraphRAGService and the Neo4j store ----
    kg_file,           \* the file whose knowledge graph is being saved, 0 when none
    kg_all_entities,   \* all_entities of _build_knowledge_graph
    kg_all_relations,  \* all_relations of _build_knowledge_graph
    kg_entities,       \* kg_result["entities"]
    kg_relations,      \* kg_result["relations"]
    kg_pc,             \* "idle", "entities", "relations": the loop of the save
    kg_i,              \* index of the next element the loop writes
    kg_log,            \* per file: "none", "saving", "saved", "failed" (what the log shows)
    nodes,             \* the nodes of the graph store
    edges,             \* the relationships of the graph store
    \* ---- SearchService._vector_search ----
    has_vector_data,   \* milvus_manager.has_data()
    rrf_bm25,          \* what _bm25_search returns for the query
    rrf_vector,        \* what _dense_vector_search returns for the query
    rrf_combined,      \* combined_results
    rrf_reranked,      \* reranked_results
    rrf_final,         \* the list _vector_search returns
    rrf_rerun,         \* reranked_results of a second run on the same candidate lists
    rrf_pc,            \* "query", "done", "again"
    \* ---- FileService: uploads and their processing threads ----
    file_threads,      \* ids of the files whose FileProcessor thread is alive
    processing_status, \* per file id: "none", "uploaded", "processing", "completed", "failed"
    file_pc,           \* per file id: where its FileProcessor thread stands
    timeout_timer,     \* per file id: the Timer: "none", "armed", "fired", "cancelled"
    \* ---- SearchService.search: one query through _direct_search ----
    search_env,        \* what the stores do for this query (see SearchEnvs)
    search_config,     \* config["vector_search"]["similarity_threshold"], in tenths
    search_ran,        \* the candidate stages that were run for the query
    search_vector_results, \* vector_results of _direct_search
    search_graph_results,  \* graph_results of _direct_search
    search_response,   \* the dict search returns
    search_pc,         \* "query" before the call, "done" after it
    \* ---- GraphRAGService._build_knowledge_graph: the extraction per content unit ----
    ex_units,          \* the content units of the document, in order (see ContentUnits)
    ex_result,         \* the dict _build_knowledge_graph returns
    ex_pc,             \* "build" before the call, "done" after it
    \* ---- GraphRAGService._extract_entities_from_text ----
    parse_prompt,      \* TRUE when the entity_extraction prompt is configured
    llm_reply,         \* the reply of the language model to the prompt
    parsed_entities,   \* the list the extraction returned
    parse_pc,          \* "call" before, then "parsed" or "call_failed"
    \* ---- GraphRAGService._optimize_relations ----
    opt_relations,     \* the relations argument
    opt_entities,      \* the entities argument
    opt_optimized,     \* the list returned
    opt_pc,            \* "call" before the call, "done" after it
    \* ---- AsyncProcessor: start_workers, submit_task, _worker, stop ----
    ap_task_queue,     \* self.task_queue: task ids and the stop signal None
    ap_workers,        \* self.workers: worker name index -> worker instance
    ap_wpc,            \* per worker instance: where the coroutine _worker is
    ap_wtask,          \* per worker instance: the task it holds
    ap_result_cache,   \* the task ids that have a result in self.result_cache
    ap_submitted,      \* per task: "no", or submitted "early" (before stop) or "late"
    ap_stop_pc         \* stop(): "idle", "awaiting" the workers, "returned"

govVars == <<adaptive_config, active_tasks, thread_pool, is_monitoring, lock, future, tpc, ret>>

batchVars == <<batch_size, task_queue, created_at, handed_at, pending_tasks, processing_lock,
               wpc, wtask, wstart, now, flushes, result_cache>>

embVars == <<emb_device, emb_pending, emb_batch_size, emb_tasks, emb_results, emb_pc>>

ddVars == <<dd_in, dd_once, dd_twice, dd_pc>>

kgVars == <<kg_file, kg_all_entities, kg_all_relations, kg_entities, kg_relations, kg_pc, kg_i,
            kg_log, nodes, edges>>

rrfVars == <<has_vector_data, rrf_bm25, rrf_vector, rrf_combined, rrf_reranked, rrf_final,
             rrf_rerun, rrf_pc>>

upVars == <<file_threads, processing_status, file_pc, timeout_timer>>

searchVars == <<search_env, search_config, search_ran, search_vector_results,
                search_graph_results,
                search_response, search_pc>>

exVars == <<ex_units, ex_result, ex_pc>>

parseVars == <<parse_prompt, llm_reply, parsed_entities, parse_pc>>

optVars == <<opt_relations, opt_entities, opt_optimized, opt_pc>>

procVars == <<ap_task_queue, ap_workers, ap_wpc, ap_wtask, ap_result_cache, ap_submitted, ap_stop_pc>>

vars == <<govVars, batchVars, embVars, ddVars, kgVars, rrfVars, upVars, searchVars, exVars, parseVars, optVars, procVars>>

\* the variables of the other components, left alone by a step of one component
notGov == <<batchVars, embVars, ddVars, kgVars, rrfVars, upVars, searchVars, exVars, parseVars, optVars, procVars>>
notBatch == <<govVars, embVars, ddVars, kgVars, rrfVars, upVars, searchVars, exVars, parseVars, optVars, procVars>>
notEmb == <<govVars, batchVars, ddVars, kgVars, rrfVars, upVars, searchVars, exVars, parseVars, optVars, procVars>>
notDedup == <<govVars, batchVars, embVars, kgVars, rrfVars, upVars, searchVars, exVars, parseVars, optVars, procVars>>
notKG == <<govVars, batchVars, embVars, ddVars, rrfVars, upVars, searchVars, exVars, parseVars, optVars, procVars>>
notRRF == <<govVars, batchVars, embVars, ddVars, kgVars, upVars, searchVars, exVars, parseVars, optVars, procVars>>
notUp == <<batchVars, embVars, ddVars, kgVars, rrfVars, searchVars, exVars, parseVars, optVars, procVars>>
notSearch == <<govVars, batchVars, embVars, ddVars, kgVars, rrfVars, upVars, exVars, parseVars, optVars, procVars>>
notExtract == <<govVars, batchVars, embVars, ddVars, kgVars, rrfVars, upVars, searchVars, parseVars, optVars, procVars>>
notParse == <<govVars, batchVars, embVars, ddVars, kgVars, rrfVars, upVars, searchVars, exVars, optVars, procVars>>
notOpt == <<govVars, batchVars, embVars, ddVars, kgVars, rrfVars, upVars, searchVars, exVars, parseVars, procVars>>
notProc == <<govVars, batchVars, embVars, ddVars, kgVars, rrfVars, upVars, searchVars, exVars, parseVars, optVars>>

(***************************************************************************)
(* Small helpers                                                           *)
(***************************************************************************)
Min(a, b) == IF a <= b THEN a ELSE b
Max(a, b) == IF a >= b THEN a ELSE b
CeilDiv(n, b) == (n + b - 1) \div b

(***************************************************************************)
(* ResourceManager (utils/resource_manager.py)                             *)
(***************************************************************************)
NumTasks == 2
TaskIds == 1..NumTasks

\* hardware profiles handed to initialize() and load samples seen by the monitor
CoreSamples == {1, 2, 4, 8}
ScoreSamples == {49, 50, 79, 80}
MemoryGbSamples == {4, 8}
CpuSamples == {80, 81}
MemorySamples == {85, 86}
GpuSamples == {90, 91}

cpu_threshold == 80
memory_threshold == 85
gpu_memory_threshold == 90

\* self.adaptive_config as set by __init__
InitialAdaptiveConfig ==
    [max_concurrent_files |-> 1, chunk_batch_size |-> 1, model_cache_limit |-> 1,
     enable_gpu |-> FALSE, processing_timeout |-> 300]

\* the adaptive_config.update(...) of _setup_initial_config, by performance tier
SetupInitialConfig(logical_cores, performance_score, total_memory, cuda_available) ==
    IF performance_score >= 80
    THEN [max_concurrent_files |-> Min(4, logical_cores \div 2),
          chunk_batch_size |-> Min(8, logical_cores),
          model_cache_limit |-> 3,
          enable_gpu |-> cuda_available,
          processing_timeout |-> 600]
    ELSE IF performance_score >= 50
    THEN [max_concurrent_files |-> Min(2, logical_cores \div 2),
          chunk_batch_size |-> Min(4, logical_cores),
          model_cache_limit |-> 2,
          enable_gpu |-> (cuda_available /\ total_memory >= 8),
          processing_timeout |-> 450]
    ELSE [max_concurrent_files |-> 1,
          chunk_batch_size |-> 1,
          model_cache_limit |-> 1,
          enable_gpu |-> FALSE,
          processing_timeout |-> 300]

\* a monitor that raises the concurrency limit under CPU pressure
AdjustCpu_Upgrading(cfg, cpu_percent) ==
    IF cpu_percent > cpu_threshold
    THEN [cfg EXCEPT
            !.max_concurrent_files = @ + 1,
            !.chunk_batch_size = IF @ > 1 THEN Max(1, @ \div 2) ELSE @]
    ELSE cfg

\* the CPU branch of _adjust_performance_config
AdjustCpu(cfg, cpu_percent) ==
    IF cpu_percent > cpu_threshold
    THEN [cfg EXCEPT
            !.max_concurrent_files = IF @ > 1 THEN @ - 1 ELSE @,
            !.chunk_batch_size = IF @ > 1 THEN Max(1, @ \div 2) ELSE @]
    ELSE cfg

\* the memory branch of _adjust_performance_config
AdjustMemory(cfg, memory_percent) ==
    IF memory_percent > memory_threshold
    THEN [cfg EXCEPT
            !.model_cache_limit = IF @ > 1 THEN @ - 1 ELSE @,
            !.chunk_batch_size = IF @ > 1 THEN Max(1, @ \div 2) ELSE @]
    ELSE cfg

\* the GPU branch of _adjust_performance_config
AdjustGpu(cfg, gpu_memory_percent) ==
    IF gpu_memory_percent > gpu_memory_threshold /\ cfg.enable_gpu
    THEN [cfg EXCEPT !.enable_gpu = FALSE]
    ELSE cfg

\* _adjust_performance_config: the three branches in the order of the code
AdjustPerformanceConfig(cfg, cpu_percent, memory_percent, gpu_memory_percent) ==
    AdjustGpu(AdjustMemory(AdjustCpu(cfg, cpu_percent), memory_percent), gpu_memory_percent)

\* `"max_concurrent_files" in locals()` at the end of _adjust_performance_config:
\* the locals are self, cpu_percent, memory_percent, gpu_memory_percent and
\* adjusted, so the test is false and the pool is not rebuilt there
RebuildAfterAdjust == FALSE

InitGov ==
    /\ adaptive_config = InitialAdaptiveConfig
    /\ active_tasks = << >>
    /\ thread_pool = 0
    /\ is_monitoring = FALSE
    /\ lock = "free"
    /\ future = [t \in TaskIds |-> "none"]
    /\ tpc = [t \in TaskIds |-> "idle"]
    /\ ret = [op |-> "none", value |-> FALSE]

ActiveCount == Cardinality(DOMAIN active_tasks)

\* del self.active_tasks[task_id]
RemoveTask(tasks, t) == [x \in (DOMAIN tasks) \ {t} |-> tasks[x]]

\* self.active_tasks[task_id] = {...}
PutTask(tasks, t, rec) == [x \in (DOMAIN tasks) \cup {t} |-> IF x = t THEN rec ELSE tasks[x]]

\* initialize(hardware_info): _setup_initial_config then _start_monitoring.
\* ThreadPoolExecutor(max_workers=0) raises; the except branch then builds a
\* pool of one worker and leaves the updated adaptive_config in place.
Initialize(logical_cores, performance_score, total_memory, cuda_available) ==
    LET cfg == SetupInitialConfig(logical_cores, performance_score, total_memory, cuda_available)
    IN /\ adaptive_config' = cfg
       /\ thread_pool' = IF cfg.max_concurrent_files >= 1 THEN cfg.max_concurrent_files ELSE 1
       /\ is_monitoring' = TRUE
       /\ UNCHANGED <<active_tasks, lock, future, tpc, ret>>

\* one iteration of _monitor_system_resources
MonitorCycle(cpu_percent, memory_percent, gpu_sample) ==
    /\ is_monitoring
    /\ LET gpu_memory_percent == IF adaptive_config.enable_gpu THEN gpu_sample ELSE 0
           needs_adjustment == \/ cpu_percent > cpu_threshold
                               \/ memory_percent > memory_threshold
                               \/ gpu_memory_percent > gpu_memory_threshold
       IN IF needs_adjustment
          THEN /\ lock = "free"
               /\ adaptive_config' = AdjustPerformanceConfig(adaptive_config, cpu_percent,
                                                             memory_percent, gpu_memory_percent)
               /\ thread_pool' = IF RebuildAfterAdjust /\ adaptive_config' # adaptive_config
                                 THEN adaptive_config'.max_concurrent_files
                                 ELSE thread_pool
          ELSE UNCHANGED <<adaptive_config, thread_pool>>
    /\ UNCHANGED <<active_tasks, is_monitoring, lock, future, tpc, ret>>

\* an admission test that is off by one
SubmitAccepts_OffByOne ==
    /\ ActiveCount <= adaptive_config.max_concurrent_files
    /\ thread_pool # 0

\* submit_task(task_id, ...): the whole body runs under self._lock.
\* A task id is submitted only while no closure of that id is alive.
SubmitAccepts ==
    /\ ActiveCount < adaptive_config.max_concurrent_files
    /\ thread_pool # 0      \* self.thread_pool.submit on None raises -> return False

SubmitTask(t) ==
    /\ lock = "free"
    /\ tpc[t] = "idle"
    /\ IF SubmitAccepts
       THEN /\ active_tasks' = PutTask(active_tasks, t, [status |-> "running"])
            /\ future' = [future EXCEPT ![t] = "pending"]
            /\ tpc' = [tpc EXCEPT ![t] = "queued"]
            /\ ret' = [op |-> "submit_task", value |-> TRUE]
       ELSE /\ ret' = [op |-> "submit_task", value |-> FALSE]
            /\ UNCHANGED <<active_tasks, future, tpc>>
    /\ UNCHANGED <<adaptive_config, thread_pool, is_monitoring, lock>>

\* wrapped(): a pool worker picks the task up; get_current_config() takes the lock
TaskStart(t) ==
    /\ tpc[t] = "queued"
    /\ lock = "free"
    /\ tpc' = [tpc EXCEPT ![t] = "exec"]
    /\ future' = [future EXCEPT ![t] = "running"]
    /\ UNCHANGED <<adaptive_config, active_tasks, thread_pool, is_monitoring, lock, ret>>

\* wrapped(): task_func returns (raised = FALSE) or raises (raised = TRUE)
TaskExec(t, raised) ==
    /\ tpc[t] = "exec"
    /\ tpc' = [tpc EXCEPT ![t] = IF raised THEN "raised" ELSE "returned"]
    /\ UNCHANGED <<adaptive_config, active_tasks, thread_pool, is_monitoring, lock, future, ret>>

\* wrapped(): the status update under the lock, in the try body or the except branch
TaskSetStatus(t) ==
    /\ tpc[t] \in {"returned", "raised"}
    /\ lock = "free"
    /\ active_tasks' = IF t \in DOMAIN active_tasks
                       THEN [active_tasks EXCEPT ![t].status =
                                IF tpc[t] = "raised" THEN "failed" ELSE "completed"]
                       ELSE active_tasks
    /\ tpc' = [tpc EXCEPT ![t] = "finally"]
    /\ UNCHANGED <<adaptive_config, thread_pool, is_monitoring, lock, future, ret>>

\* wrapped(): the finally block removes the record under the lock
TaskCleanup(t) ==
    /\ tpc[t] = "finally"
    /\ lock = "free"
    /\ active_tasks' = IF t \in DOMAIN active_tasks THEN RemoveTask(active_tasks, t) ELSE active_tasks
    /\ tpc' = [tpc EXCEPT ![t] = "idle"]
    /\ future' = [future EXCEPT ![t] = "none"]
    /\ UNCHANGED <<adaptive_config, thread_pool, is_monitoring, lock, ret>>

\* a cancel that drops the record of any active task, started or not
CancelTask_Preempting(t) ==
    /\ lock = "free"
    /\ IF t \in DOMAIN active_tasks
       THEN /\ active_tasks' = RemoveTask(active_tasks, t)
            /\ future' = [future EXCEPT ![t] = IF @ = "pending" THEN "none" ELSE @]
            /\ tpc' = [tpc EXCEPT ![t] = IF @ = "queued" THEN "idle" ELSE @]
            /\ ret' = [op |-> "cancel_task", value |-> TRUE]
       ELSE /\ ret' = [op |-> "cancel_task", value |-> FALSE]
            /\ UNCHANGED <<active_tasks, future, tpc>>
    /\ UNCHANGED <<adaptive_config, thread_pool, is_monitoring, lock>>

\* cancel_task(task_id): future.cancel() succeeds only on a future no worker has started
CancelTask(t) ==
    /\ lock = "free"
    /\ IF t \in DOMAIN active_tasks /\ future[t] = "pending"
       THEN /\ active_tasks' = RemoveTask(active_tasks, t)
            /\ future' = [future EXCEPT ![t] = "none"]
            /\ tpc' = [tpc EXCEPT ![t] = "idle"]
            /\ ret' = [op |-> "cancel_task", value |-> TRUE]
       ELSE /\ ret' = [op |-> "cancel_task", value |-> FALSE]
            /\ UNCHANGED <<active_tasks, future, tpc>>
    /\ UNCHANGED <<adaptive_config, thread_pool, is_monitoring, lock>>

\* cleanup_expired_tasks(): `expired` is the set of active tasks whose runtime
\* exceeds processing_timeout at the time.time() the call reads.  The call takes
\* self._lock (a threading.Lock, not reentrant) and, still holding it, calls
\* cancel_task for the first expired task, which waits for the same lock: the
\* calling thread stays there, holding the lock.  Without an expired task the
\* call releases the lock and returns.
CleanupExpiredTasks(expired) ==
    /\ lock = "free"
    /\ expired \subseteq DOMAIN active_tasks
    /\ IF expired = {}
       THEN /\ ret' = [op |-> "cleanup_expired_tasks", value |-> TRUE]
            /\ UNCHANGED lock
       ELSE /\ lock' = "cleanup_expired_tasks"
            /\ UNCHANGED ret
    /\ UNCHANGED <<adaptive_config, active_tasks, thread_pool, is_monitoring, future, tpc>>

\* force_conservative_mode(): takes the lock and overwrites the configuration ...
ForceConservativeMode ==
    /\ lock = "free"
    /\ lock' = "force_conservative_mode"
    /\ adaptive_config' = [max_concurrent_files |-> 1, chunk_batch_size |-> 1,
                           model_cache_limit |-> 1, enable_gpu |-> FALSE,
                           processing_timeout |-> 180]
    /\ UNCHANGED <<active_tasks, thread_pool, is_monitoring, future, tpc, ret>>

\* ... then _rebuild_thread_pool(): shutdown(wait=True) returns once every future
\* of the pool has run, the new pool is built and the lock is released
RebuildThreadPool ==
    /\ lock = "force_conservative_mode"
    /\ \A t \in TaskIds : future[t] \notin {"pending", "running"}
    /\ thread_pool' = adaptive_config.max_concurrent_files
    /\ lock' = "free"
    /\ UNCHANGED <<adaptive_config, active_tasks, is_monitoring, future, tpc, ret>>

(***************************************************************************)
(* C1 - Backpressure.  On an initialised ResourceManager a submit_task     *)
(* made while the number of active tasks equals the concurrency limit      *)
(* returns false and changes neither the active set nor any future; when   *)
(* one of the active tasks of a full manager finishes (after returning or  *)
(* raising) its record is removed and the admission test passes again, and *)
(* a submit_task made while the admission test passes returns true and     *)
(* records the task.                                                       *)
(***************************************************************************)
SubmitRejectedWhenFull ==
    \A t \in TaskIds :
        (SubmitTask(t) /\ is_monitoring /\ ActiveCount = adaptive_config.max_concurrent_files)
            => /\ ret' = [op |-> "submit_task", value |-> FALSE]
               /\ active_tasks' = active_tasks
               /\ future' = future
               /\ tpc' = tpc

SlotFreedByFinish ==
    \A t \in TaskIds :
        (TaskCleanup(t) /\ is_monitoring /\ t \in DOMAIN active_tasks
                        /\ ActiveCount = adaptive_config.max_concurrent_files)
            => /\ t \notin DOMAIN active_tasks'
               /\ Cardinality(DOMAIN active_tasks') < adaptive_config'.max_concurrent_files

SubmitAcceptedWhenFree ==
    \A t \in TaskIds :
        (SubmitTask(t) /\ is_monitoring /\ ActiveCount < adaptive_config.max_concurrent_files)
            => /\ ret' = [op |-> "submit_task", value |-> TRUE]
               /\ DOMAIN active_tasks' = DOMAIN active_tasks \cup {t}
               /\ future'[t] = "pending"

C1_Backpressure ==
    [][SubmitRejectedWhenFull /\ SlotFreedByFinish /\ SubmitAcceptedWhenFree]_vars

\* a submit_task has just been rejected by a full, initialised manager
C1_Witness ==
    /\ is_monitoring
    /\ ret = [op |-> "submit_task", value |-> FALSE]
    /\ ActiveCount = adaptive_config.max_concurrent_files
    /\ ActiveCount >= 1
    /\ \E t \in DOMAIN active_tasks : active_tasks[t].status \in {"completed", "failed"}

(***************************************************************************)
(* C2 - Degradation monotonicity.  A step that is neither initialize() nor *)
(* force_conservative_mode() never raises the concurrency limit or the     *)
(* batch size and never re-enables a disabled GPU.                         *)
(***************************************************************************)
ExplicitReconfigure ==
    \/ \E c \in CoreSamples, s \in ScoreSamples, m \in MemoryGbSamples, g \in BOOLEAN :
          Initialize(c, s, m, g)
    \/ ForceConservativeMode

NoUpgrade ==
    /\ adaptive_config'.max_concurrent_files <= adaptive_config.max_concurrent_files
    /\ adaptive_config'.chunk_batch_size <= adaptive_config.chunk_batch_size
    /\ adaptive_config'.enable_gpu => adaptive_config.enable_gpu

C2_DegradationMonotone == [][NoUpgrade \/ ExplicitReconfigure]_vars

\* the monitor has degraded the aggressive tier of an 8-core host by one CPU step
C2_Witness ==
    /\ is_monitoring
    /\ adaptive_config.max_concurrent_files = 3
    /\ adaptive_config.chunk_batch_size = 4

(***************************************************************************)
(* C12 - cancel_task.  On an accepted task no worker has started it        *)
(* returns true, removes the record and leaves the closure unstarted for   *)
(* good (its future is cancelled, so no worker will run it); on a task a   *)
(* worker has started it returns false and changes neither the task, the   *)
(* active set nor the configuration; on an unknown id it returns false.    *)
(***************************************************************************)
CancelOfPending(t) ==
    (CancelTask(t) /\ t \in DOMAIN active_tasks /\ future[t] = "pending")
        => /\ ret' = [op |-> "cancel_task", value |-> TRUE]
           /\ active_tasks' = RemoveTask(active_tasks, t)
           /\ tpc[t] = "queued" /\ tpc'[t] = "idle"
           /\ future'[t] = "none"
           /\ \A u \in TaskIds \ {t} : tpc'[u] = tpc[u] /\ future'[u] = future[u]
           /\ adaptive_config' = adaptive_config

CancelOfRunning(t) ==
    (CancelTask(t) /\ t \in DOMAIN active_tasks /\ future[t] = "running")
        => /\ ret' = [op |-> "cancel_task", value |-> FALSE]
           /\ UNCHANGED <<active_tasks, future, tpc, adaptive_config, thread_pool>>

CancelOfUnknown(t) ==
    (CancelTask(t) /\ t \notin DOMAIN active_tasks)
        => /\ ret' = [op |-> "cancel_task", value |-> FALSE]
           /\ UNCHANGED <<active_tasks, future, tpc, adaptive_config, thread_pool>>

\* a closure runs only after a worker took it off the queue
OnlyStartedTasksExecute ==
    \A t \in TaskIds : (tpc'[t] = "exec" /\ tpc[t] # "exec") => tpc[t] = "queued"

C12_CancelTask ==
    [][/\ \A t \in TaskIds : CancelOfPending(t) /\ CancelOfRunning(t) /\ CancelOfUnknown(t)
       /\ OnlyStartedTasksExecute]_vars

\* a queued task has just been cancelled while another task keeps running
C12_Witness ==
    /\ ret = [op |-> "cancel_task", value |-> TRUE]
    /\ \E t \in TaskIds : tpc[t] = "idle" /\ t \notin DOMAIN active_tasks
    /\ \E u \in DOMAIN active_tasks : future[u] = "running"

(***************************************************************************)
(* C24 - one degradation step per monitor cycle.  In a monitor cycle in    *)
(* which a threshold is crossed the batch size is halved once (never below *)
(* 1) and the concurrency limit goes down by one (never below 1), and the  *)
(* GPU is switched off only if the GPU-memory threshold was breached,      *)
(* whichever of the CPU, memory and GPU thresholds were crossed.           *)
(***************************************************************************)
ThresholdCrossed(cpu_percent, memory_percent, gpu_sample) ==
    \/ cpu_percent > cpu_threshold
    \/ memory_percent > memory_threshold
    \/ (adaptive_config.enable_gpu /\ gpu_sample > gpu_memory_threshold)

OneDegradationStep(gpu_sample) ==
    /\ adaptive_config'.chunk_batch_size = Max(1, adaptive_config.chunk_batch_size \div 2)
    /\ adaptive_config'.max_concurrent_files = Max(1, adaptive_config.max_concurrent_files - 1)
    /\ adaptive_config'.enable_gpu # adaptive_config.enable_gpu
          => gpu_sample > gpu_memory_threshold

C24_OneStepPerCycle ==
    [][\A c \in CpuSamples, m \in MemorySamples, g \in GpuSamples :
          (MonitorCycle(c, m, g) /\ ThresholdCrossed(c, m, g)) => OneDegradationStep(g)]_vars

(***************************************************************************)
(* C13 - cleanup_expired_tasks always returns: a call that has taken the   *)
(* lock and found expired tasks eventually gives the lock back, having     *)
(* asked for the cancellation of each of them.                             *)
(***************************************************************************)
C13_CleanupReturns == (lock = "cleanup_expired_tasks") ~> (lock = "free")

(***************************************************************************)
(* C29 - limits stay positive.  After initialize with any hardware profile *)
(* and after any number of degradation steps the concurrency limit and the *)
(* batch size are both at least 1, and a governor without an active task   *)
(* passes the admission test of submit_task.                               *)
(***************************************************************************)
C29_LimitsAtLeastOne ==
    is_monitoring =>
        /\ adaptive_config.max_concurrent_files >= 1
        /\ adaptive_config.chunk_batch_size >= 1
        /\ ActiveCount = 0 => SubmitAccepts

(***************************************************************************)
(* C28 - force_conservative_mode with a task in the pool.  A call of       *)
(* force_conservative_mode made while an accepted task is queued or        *)
(* running eventually returns (the lock is released), and the task         *)
(* eventually finishes and is removed from the active set.                 *)
(***************************************************************************)
TaskInPool(t) == future[t] \in {"pending", "running"}

C28_ForceConservativeReturns ==
    \A t \in TaskIds :
        (lock = "force_conservative_mode" /\ TaskInPool(t))
            ~> (lock = "free" /\ t \notin DOMAIN active_tasks)

(***************************************************************************)
(* AsyncProcessor / BatchProcessor (utils/async_processor.py)              *)
(* The coroutines run on one event loop: a step below is the code between  *)
(* two points at which a coroutine can be suspended.                       *)
(***************************************************************************)
NumBTasks == 3
BTaskIds == 1..NumBTasks
MaxTime == 3

\* init_async_processing(): start_workers(num_workers=3)
NumWorkers == 3
Workers == 1..NumWorkers

\* batch sizes of the windows: 4 is the 'ocr' window, 2 the CPU 'image_analysis' window
BatchSizes == {1, 2, 4}

\* batch_configs['embedding']['max_wait_time']
max_wait_time == 2

InitBatchWith(b) ==
    /\ batch_size = b
    /\ task_queue = << >>
    /\ created_at = [t \in BTaskIds |-> -1]
    /\ handed_at = [t \in BTaskIds |-> -1]
    /\ pending_tasks = << >>
    /\ processing_lock = 0
    /\ wpc = [w \in Workers |-> "get"]
    /\ wtask = [w \in Workers |-> 0]
    /\ wstart = [w \in Workers |-> 0]
    /\ now = 0
    /\ flushes = << >>
    /\ result_cache = << >>

InitBatch == \E b \in BatchSizes : InitBatchWith(b)

SeqRange(s) == {s[i] : i \in 1..Len(s)}

\* _should_process_batch over a given pending list: the oldest task has waited max_wait_time
ShouldProcessBatch(pending) ==
    /\ pending # << >>
    /\ \E t \in SeqRange(pending) :
          /\ \A u \in SeqRange(pending) : created_at[t] <= created_at[u]
          /\ now - created_at[t] >= max_wait_time

\* _process_batch: batch_tasks = pending_tasks[:batch_size]
BatchTasks(pending) == SubSeq(pending, 1, Min(batch_size, Len(pending)))

\* _process_batch: pending_tasks = pending_tasks[batch_size:]
RestTasks(pending) == SubSeq(pending, Min(batch_size, Len(pending)) + 1, Len(pending))

\* _process_generic_batch / _process_ocr_batch / _process_image_batch:
\* one result per task of the batch, carrying the task's id
BatchResult(batch) == [i \in 1..Len(batch) |-> [task_id |-> batch[i], status |-> "completed"]]

\* the worker stores what process_task returned: self.result_cache[task.task_id] = result
StoreResult(cache, t, result) ==
    [x \in (DOMAIN cache) \cup {t} |-> IF x = t THEN result ELSE cache[x]]

\* _process_batch called by worker w on the pending list `pending`, followed by the
\* worker storing the returned value; an empty pending list returns None
ProcessBatch(w, pending) ==
    /\ IF pending = << >>
       THEN /\ result_cache' = StoreResult(result_cache, wtask[w], << >>)
            /\ UNCHANGED <<pending_tasks, flushes>>
       ELSE /\ pending_tasks' = RestTasks(pending)
            /\ flushes' = Append(flushes, BatchTasks(pending))
            /\ result_cache' = StoreResult(result_cache, wtask[w], BatchResult(BatchTasks(pending)))
    /\ wpc' = [wpc EXCEPT ![w] = "get"]
    /\ wtask' = [wtask EXCEPT ![w] = 0]

\* AsyncProcessor.submit_task(ProcessingTask(...)): created_at is taken at construction.
\* Task ids are handed out in submission order.
SubmitBatchTask(t) ==
    /\ created_at[t] = -1
    /\ \A u \in BTaskIds : u < t => created_at[u] >= 0
    /\ created_at' = [created_at EXCEPT ![t] = now]
    /\ task_queue' = Append(task_queue, t)
    /\ UNCHANGED <<batch_size, handed_at, pending_tasks, processing_lock, wpc, wtask, wstart,
                   now, flushes, result_cache>>

\* _worker: task = await self.task_queue.get(), then process_task(task) is called
WorkerGet(w) ==
    /\ wpc[w] = "get"
    /\ task_queue # << >>
    /\ wtask' = [wtask EXCEPT ![w] = Head(task_queue)]
    /\ task_queue' = Tail(task_queue)
    /\ handed_at' = [handed_at EXCEPT ![Head(task_queue)] = now]
    /\ wpc' = [wpc EXCEPT ![w] = "acquire"]
    /\ UNCHANGED <<batch_size, created_at, pending_tasks, processing_lock, wstart, now,
                   flushes, result_cache>>

\* process_task: `async with self.processing_lock`, append, then either flush at once
\* (the lock is released on return) or enter _wait_for_batch still holding the lock
WorkerEnter(w) ==
    /\ wpc[w] = "acquire"
    /\ processing_lock = 0
    /\ LET pending == Append(pending_tasks, wtask[w])
       IN IF Len(pending) >= batch_size \/ ShouldProcessBatch(pending)
          THEN /\ ProcessBatch(w, pending)
               /\ UNCHANGED <<processing_lock, wstart>>
          ELSE /\ pending_tasks' = pending
               /\ processing_lock' = w
               /\ wstart' = [wstart EXCEPT ![w] = now]
               /\ wpc' = [wpc EXCEPT ![w] = "wait"]
               /\ UNCHANGED <<wtask, flushes, result_cache>>
    /\ UNCHANGED <<batch_size, task_queue, created_at, handed_at, now>>

\* _wait_for_batch: the loop ends when max_wait_time has elapsed or the window is
\* full; _process_batch then runs and process_task returns, releasing the lock
WorkerWaitDone(w) ==
    /\ wpc[w] = "wait"
    /\ \/ ~(now - wstart[w] < max_wait_time)
       \/ Len(pending_tasks) >= batch_size
    /\ ProcessBatch(w, pending_tasks)
    /\ processing_lock' = 0
    /\ UNCHANGED <<batch_size, task_queue, created_at, handed_at, wstart, now>>

\* the clock advances by one unit
Tick ==
    /\ now < MaxTime
    /\ now' = now + 1
    /\ UNCHANGED <<batch_size, task_queue, created_at, handed_at, pending_tasks,
                   processing_lock, wpc, wtask, wstart, flushes, result_cache>>


Flushed(t) == \E i \in 1..Len(flushes) : t \in SeqRange(flushes[i])

Created == {t \in BTaskIds : created_at[t] >= 0}

\* every submitted task was handed to process_task before any max_wait_time could have elapsed
HandedBeforeAnyTimeout == \A t \in Created : handed_at[t] >= 0 /\ handed_at[t] < max_wait_time

(***************************************************************************)
(* C3 - Batch correctness.  When the N tasks submitted so far have all     *)
(* been handed to the processor by the workers before a max_wait_time      *)
(* could elapse, then, once each of them has been flushed, exactly         *)
(* ceil(N / batch_size) flushes have been performed.                       *)
(***************************************************************************)
C3_BatchCount ==
    (HandedBeforeAnyTimeout /\ \A t \in Created : Flushed(t))
        => Len(flushes) = CeilDiv(Cardinality(Created), batch_size)

(***************************************************************************)
(* C5 - Timeout flush.  A window with batch_size 4 and max_wait_time 2     *)
(* that received exactly three tasks before max_wait_time elapsed performs *)
(* a single flush, and the batch of that flush is exactly those three      *)
(* tasks.                                                                  *)
(***************************************************************************)
C5_TimeoutFlush ==
    ( /\ batch_size = 4
      /\ max_wait_time = 2
      /\ Cardinality(Created) = 3
      /\ HandedBeforeAnyTimeout
      /\ flushes # << >> )
        => /\ Len(flushes) = 1
           /\ SeqRange(flushes[1]) = Created

(***************************************************************************)
(* BatchProcessor._process_embedding_batch (utils/async_processor.py)      *)
(* A text is [src, length]: the task it belongs to and its length.  A      *)
(* slice of a text is [src, offset, length]; the embedding of a slice is   *)
(* [of |-> slice].                                                         *)
(***************************************************************************)
MaxEmbBatch == 3
EmbTaskIds == 1..MaxEmbBatch

\* `if len(text) > 512` in _gpu_batch_embedding
max_text_length == 512

\* text lengths around the slicing limit
TextLengths == {1, 512, 513, 1025}

NoEmbedding == [of |-> [src |-> 0, offset |-> 0, length |-> 0]]

\* chunks = [text[i:i+512] for i in range(0, len(text), 512)]
Chunks(text) ==
    [k \in 1..CeilDiv(text.length, max_text_length) |->
        [src |-> text.src,
         offset |-> (k - 1) * max_text_length,
         length |-> Min(max_text_length, text.length - (k - 1) * max_text_length)]]

RECURSIVE ProcessedTexts(_)
\* the loop of _gpu_batch_embedding building processed_texts
ProcessedTexts(texts) ==
    IF texts = << >> THEN << >>
    ELSE (IF Head(texts).length > max_text_length
          THEN Chunks(Head(texts))
          ELSE << [src |-> Head(texts).src, offset |-> 0, length |-> Head(texts).length] >>)
         \o ProcessedTexts(Tail(texts))

\* model_manager.get_embedding(texts): one embedding per text, in order
GetEmbedding(texts) == [i \in 1..Len(texts) |-> [of |-> texts[i]]]

\* _gpu_batch_embedding(texts)
GpuBatchEmbedding(texts) ==
    LET processed_texts == ProcessedTexts(texts)
        embeddings == GetEmbedding(processed_texts)
    IN IF Len(processed_texts) > Len(texts)
       THEN SubSeq(embeddings, 1, Len(texts))
       ELSE embeddings

\* _cpu_batch_embedding(texts)
CpuBatchEmbedding(texts) ==
    GetEmbedding([i \in 1..Len(texts) |->
                    [src |-> texts[i].src, offset |-> 0, length |-> texts[i].length]])

\* _process_embedding_batch(tasks), the model call succeeding
ProcessEmbeddingBatch(device, tasks) ==
    LET texts == [i \in 1..Len(tasks) |-> tasks[i].text]
        results == IF device = "cuda" THEN GpuBatchEmbedding(texts) ELSE CpuBatchEmbedding(texts)
    IN [i \in 1..Len(tasks) |->
          [task_id |-> tasks[i].task_id,
           embedding |-> IF i <= Len(results) THEN results[i] ELSE NoEmbedding,
           status |-> IF i <= Len(results) THEN "completed" ELSE "failed"]]

\* a handler that gives the error to the first task only and runs the others again
EmbeddingBatchError_Splitting(tasks) ==
    [i \in 1..Len(tasks) |->
        IF i = 1
        THEN [task_id |-> tasks[i].task_id, embedding |-> NoEmbedding, status |-> "error"]
        ELSE [task_id |-> tasks[i].task_id,
              embedding |-> [of |-> [src |-> tasks[i].text.src, offset |-> 0,
                                     length |-> tasks[i].text.length]],
              status |-> "completed"]]

\* _process_embedding_batch(tasks), get_embedding raising: the except branch
EmbeddingBatchError(tasks) ==
    [i \in 1..Len(tasks) |->
        [task_id |-> tasks[i].task_id, embedding |-> NoEmbedding, status |-> "error"]]

\* batches of one to MaxEmbBatch tasks with distinct ids; the text of a task is its own
EmbBatches ==
    UNION { { b \in [1..n -> [task_id : EmbTaskIds, text : [src : EmbTaskIds, length : TextLengths]]] :
                /\ \A i \in 1..n : b[i].text.src = b[i].task_id
                /\ \A i, j \in 1..n : i # j => b[i].task_id # b[j].task_id }
            : n \in 1..MaxEmbBatch }

\* batch sizes of the window: one that cuts the pending list, and the CPU 'embedding' size
EmbBatchSizes == {2, 8}

InitEmbWith(d, pending, b) ==
    /\ emb_device = d
    /\ emb_pending = pending
    /\ emb_batch_size = b
    /\ emb_tasks = << >>
    /\ emb_results = << >>
    /\ emb_pc = "call"

InitEmb ==
    \E d \in {"cpu", "cuda"}, pending \in EmbBatches, b \in EmbBatchSizes : InitEmbWith(d, pending, b)

\* _process_batch: batch_tasks = self.pending_tasks[:self.batch_size]
EmbBatchTasks == SubSeq(emb_pending, 1, Min(emb_batch_size, Len(emb_pending)))

\* _process_batch: self.pending_tasks = self.pending_tasks[self.batch_size:]
EmbRestTasks == SubSeq(emb_pending, Min(emb_batch_size, Len(emb_pending)) + 1, Len(emb_pending))

\* _process_batch of the 'embedding' window, the model call succeeding
EmbedBatch ==
    /\ emb_pending # << >>
    /\ emb_tasks' = EmbBatchTasks
    /\ emb_pending' = EmbRestTasks
    /\ emb_results' = ProcessEmbeddingBatch(emb_device, emb_tasks')
    /\ emb_pc' = "done"
    /\ UNCHANGED <<emb_device, emb_batch_size>>

\* _process_batch of the 'embedding' window, the model call raising
EmbedBatchFails ==
    /\ emb_pending # << >>
    /\ emb_tasks' = EmbBatchTasks
    /\ emb_pending' = EmbRestTasks
    /\ emb_results' = EmbeddingBatchError(emb_tasks')
    /\ emb_pc' = "done"
    /\ UNCHANGED <<emb_device, emb_batch_size>>

(***************************************************************************)
(* C4 - Results map back 1:1 in submission order.  After a flush whose     *)
(* model call succeeded there is one result per task, and the i-th result  *)
(* carries the i-th task's id and an embedding computed from the i-th      *)
(* task's text.                                                            *)
(***************************************************************************)
C4_ResultsInOrder ==
    (emb_pc = "done" /\ \A i \in 1..Len(emb_results) : emb_results[i].status # "error")
        => /\ Len(emb_results) = Len(emb_tasks)
           /\ \A i \in 1..Len(emb_tasks) :
                 /\ emb_results[i].task_id = emb_tasks[i].task_id
                 /\ emb_results[i].status = "completed"
                 /\ emb_results[i].embedding.of.src = emb_tasks[i].task_id

(***************************************************************************)
(* C20 - batch inference failure.  When the model call of a flushed batch  *)
(* fails, every task of the batch gets the same error outcome (one result  *)
(* per task, in order), no task of the batch is put back into the window,  *)
(* and the tasks left pending in the window are what they were.            *)
(***************************************************************************)
FlushStep == emb_pc' = "done" /\ emb_pending' # emb_pending

SomeResultIsError == \E i \in 1..Len(emb_results) : emb_results[i].status = "error"

SameErrorForAll ==
    /\ Len(emb_results) = Len(emb_tasks)
    /\ \A i \in 1..Len(emb_tasks) :
          /\ emb_results[i].task_id = emb_tasks[i].task_id
          /\ emb_results[i].status = "error"
          /\ emb_results[i].embedding = emb_results[1].embedding

C20_BatchFailure ==
    [][(FlushStep /\ SomeResultIsError') =>
          /\ SameErrorForAll'
          /\ emb_tasks' \o emb_pending' = emb_pending
          /\ \A i \in 1..Len(emb_tasks'), j \in 1..Len(emb_pending') :
                emb_tasks'[i].task_id # emb_pending'[j].task_id]_vars

C20_Witness ==
    /\ emb_pc = "done"
    /\ Len(emb_tasks) >= 2
    /\ SomeResultIsError
    /\ emb_pending # << >>

(***************************************************************************)
(* GraphRAGService._deduplicate_entities / _merge_entities                 *)
(* (app/service/GraphRAGService.py)                                        *)
(* A name is a sequence of characters.  An entity is                       *)
(* [entity_id, name, type, confidence, source_chunks, merged_count];       *)
(* confidence is in tenths, merged_count 0 stands for an entity without    *)
(* the "merged_count" key.                                                 *)
(***************************************************************************)
MaxEntities == 3

Names == {<<"a">>, <<"A">>, <<"b">>, <<"B">>}
EntityTypes == {"CONCEPT", "ORG"}
Confidences == {7, 9}
ChunkIds == {"A", "B"}

\* str.lower() on one character
LowerChar(c) == IF c = "A" THEN "a" ELSE IF c = "B" THEN "b" ELSE c

\* entity["name"].lower().strip(); the names hold no whitespace, the extractors
\* store them already stripped
Lower(name) == [i \in 1..Len(name) |-> LowerChar(name[i])]

RECURSIVE GroupKeys(_, _)
\* the keys of entity_groups in insertion order (a dict keeps first-seen order)
GroupKeys(entities, seen) ==
    IF entities = << >> THEN << >>
    ELSE LET k == Lower(Head(entities).name)
         IN IF k \in seen
            THEN GroupKeys(Tail(entities), seen)
            ELSE <<k>> \o GroupKeys(Tail(entities), seen \cup {k})

\* entity_groups[name]
Group(entities, key) == SelectSeq(entities, LAMBDA e : Lower(e.name) = key)

\* max(entity_group, key=confidence): the first entity of maximal confidence
MaxByConfidence(group) ==
    LET i == CHOOSE i \in 1..Len(group) :
                 /\ \A j \in 1..Len(group) : group[j].confidence <= group[i].confidence
                 /\ \A j \in 1..(i - 1) : group[j].confidence < group[i].confidence
    IN group[i]

\* _merge_entities(entity_group)
MergeEntities(group) ==
    [MaxByConfidence(group) EXCEPT
        !.source_chunks = UNION {group[i].source_chunks : i \in 1..Len(group)},
        !.merged_count = Len(group)]

\* a merge that adds the group size to the count the canonical entity already has,
\* applied to every group
DedupGroup_Accumulating(group) ==
    [MergeEntities(group) EXCEPT !.merged_count = MaxByConfidence(group).merged_count + Len(group)]

\* the body of the loop over entity_groups.items()
DedupGroup(group) ==
    IF Len(group) = 1 THEN group[1] ELSE MergeEntities(group)

\* _deduplicate_entities(entities)
DeduplicateEntities(entities) ==
    IF entities = << >> THEN << >>
    ELSE LET keys == GroupKeys(entities, {})
         IN [i \in 1..Len(keys) |-> DedupGroup(Group(entities, keys[i]))]

\* an entity as an extractor produces it: a fresh id, one source chunk, no merged_count
Extracted(i, name, type, confidence, chunk) ==
    [entity_id |-> i, name |-> name, type |-> type, confidence |-> confidence,
     source_chunks |-> {chunk}, merged_count |-> 0]

EntityAttrs == Names \X EntityTypes \X Confidences \X ChunkIds

\* the letters and the chunk ids are interchangeable: the first entity is spelled
\* with the letter a and comes from chunk "A"
FirstEntityAttrs == {a \in EntityAttrs : Lower(a[1]) = <<"a">> /\ a[4] = "A"}

\* the entity lists of length n
ExtractedEntities(n) ==
    IF n = 0 THEN {<< >>}
    ELSE { [i \in 1..n |-> LET a == IF i = 1 THEN first ELSE rest[i - 1]
                           IN Extracted(i, a[1], a[2], a[3], a[4])] :
             first \in FirstEntityAttrs, rest \in [1..(n - 1) -> EntityAttrs] }

InitDedupWith(es) ==
    /\ dd_in = es
    /\ dd_once = << >>
    /\ dd_twice = << >>
    /\ dd_pc = "in"

InitDedup == \E n \in 0..MaxEntities : \E es \in ExtractedEntities(n) : InitDedupWith(es)

DedupOnce ==
    /\ dd_pc = "in"
    /\ dd_once' = DeduplicateEntities(dd_in)
    /\ dd_pc' = "once"
    /\ UNCHANGED <<dd_in, dd_twice>>

DedupTwice ==
    /\ dd_pc = "once"
    /\ dd_twice' = DeduplicateEntities(dd_once)
    /\ dd_pc' = "twice"
    /\ UNCHANGED <<dd_in, dd_once>>

(***************************************************************************)
(* C6 - Idempotence of deduplication.  Deduplicating the result of a       *)
(* deduplication returns that result unchanged: the same entities with the *)
(* same name, type, confidence, source chunks and merged count.            *)
(***************************************************************************)
C6_DedupIdempotent == dd_pc = "twice" => dd_twice = dd_once

\* a second deduplication of a result that holds a merged group and another group
C6_Witness ==
    /\ dd_pc = "twice"
    /\ Len(dd_once) = 2
    /\ \E i \in 1..Len(dd_once) : dd_once[i].merged_count = 2

(***************************************************************************)
(* C7 - Deduplication returns exactly one entity per case-insensitive name *)
(* group: the group's highest-confidence entity, carrying the union of the *)
(* group's source chunks and a merged count equal to the group size.       *)
(***************************************************************************)
C7_DedupCanonical ==
    dd_pc # "in" =>
        LET keys == {Lower(dd_in[i].name) : i \in 1..Len(dd_in)}
        IN /\ Len(dd_once) = Cardinality(keys)
           /\ \A k \in keys :
                 LET members == {i \in 1..Len(dd_in) : Lower(dd_in[i].name) = k}
                 IN \E j \in 1..Len(dd_once) :
                       /\ Lower(dd_once[j].name) = k
                       /\ \E i \in members :
                             /\ dd_once[j].entity_id = dd_in[i].entity_id
                             /\ dd_once[j].name = dd_in[i].name
                             /\ dd_once[j].type = dd_in[i].type
                             /\ dd_once[j].confidence = dd_in[i].confidence
                       /\ \A i \in members : dd_in[i].confidence <= dd_once[j].confidence
                       /\ dd_once[j].source_chunks = UNION {dd_in[i].source_chunks : i \in members}
                       /\ dd_once[j].merged_count = Cardinality(members)

(***************************************************************************)
(* C22 - the name-based merge is commutative.  Deduplicating any           *)
(* permutation of an entity list yields the same set of canonical entities *)
(* (name, type, confidence, source chunks, merged count), also when        *)
(* several entities of a group share the highest confidence.               *)
(***************************************************************************)
ListPermutations(n) == {q \in [1..n -> 1..n] : \A i, j \in 1..n : i # j => q[i] # q[j]}

CanonicalSet(entities) ==
    {[name |-> entities[i].name, type |-> entities[i].type,
      confidence |-> entities[i].confidence, source_chunks |-> entities[i].source_chunks,
      merged_count |-> entities[i].merged_count] : i \in 1..Len(entities)}

C22_DedupCommutative ==
    dd_pc # "in" =>
        \A q \in ListPermutations(Len(dd_in)) :
            CanonicalSet(DeduplicateEntities([i \in 1..Len(dd_in) |-> dd_in[q[i]]]))
                = CanonicalSet(dd_once)

(***************************************************************************)
(* Knowledge graph: GraphRAGService._build_knowledge_graph,                *)
(* _optimize_relations and _save_knowledge_graph_to_db, the Neo4jManager   *)
(* of utils/database.py and FileService._delete_graph_data.                *)
(* A node of the store is [name, file_id]; an edge is [from, to, type,     *)
(* file_id] with from and to the nodes it connects.                        *)
(***************************************************************************)
MaxFiles == 2
FileIds == 1..MaxFiles
MaxKgEntities == 2
MaxKgRelations == 2

KgNames == {<<"a">>, <<"A">>, <<"b">>}

\* the <<subject, predicate, object>> an extractor can report: between two
\* spellings the entities can have, in either direction, and from a second
\* spelling of the first
KgTriples == {<< <<"a">>, <<"P">>, <<"b">> >>, << <<"A">>, <<"P">>, <<"b">> >>,
              << <<"b">>, <<"P">>, <<"a">> >>}

\* _parse_entities_response: a text entity gets a fresh id and confidence 0.8;
\* _extract_entities_relations_from_text adds the source chunks
KgEntities(n) ==
    { [i \in 1..n |-> Extracted(i, names[i], "CONCEPT", 8, "A")] : names \in [1..n -> KgNames] }

\* _parse_relations_response: a fresh relationship_id, subject, predicate, object
Relation(i, subject, predicate, object) ==
    [relationship_id |-> i, subject |-> subject, predicate |-> predicate, object |-> object]

KgRelations(n) ==
    { [i \in 1..n |-> Relation(i, t[i][1], t[i][2], t[i][3])] :
        t \in [1..n -> KgTriples] }

\* what the extractors can hand to _build_knowledge_graph
KgEntityLists == UNION {KgEntities(n) : n \in 0..MaxKgEntities}
KgRelationLists == UNION {KgRelations(n) : n \in 0..MaxKgRelations}

\* relation_key = f"{subject}_{predicate}_{object_name}"
RelationKey(r) == r.subject \o <<"_">> \o r.predicate \o <<"_">> \o r.object

\* the keys of entity_name_to_id
EntityNames(entities) == {entities[i].name : i \in 1..Len(entities)}

\* the loop of _optimize_relations from relation i on, with seen_relations = seen
RECURSIVE OptimizeFrom(_, _, _, _)
OptimizeFrom(relations, names, i, seen) ==
    IF i > Len(relations) THEN << >>
    ELSE LET r == relations[i]
         IN IF r.subject \in names /\ r.object \in names /\ RelationKey(r) \notin seen
            THEN <<r>> \o OptimizeFrom(relations, names, i + 1, seen \cup {RelationKey(r)})
            ELSE OptimizeFrom(relations, names, i + 1, seen)

\* an endpoint test that compares names without regard to case
OptimizeRelations_IgnoringCase(relations, entities) ==
    OptimizeFrom(relations,
                 {n \in KgNames : \E m \in EntityNames(entities) : Lower(n) = Lower(m)}, 1, {})

\* _optimize_relations(relations, entities)
OptimizeRelations(relations, entities) ==
    OptimizeFrom(relations, EntityNames(entities), 1, {})

Node(name, f) == [name |-> name, file_id |-> f]

\* Neo4jManager.create_entity: CREATE (n:type $properties)
CreateEntity(ns, entity, f) == ns \cup {Node(entity.name, f)}

\* a write that creates the edge between the named endpoints without matching them
CreateRelationship_Unmatched(ns, es, from_name, to_name, relation_type, f) ==
    es \cup {[from |-> Node(from_name, f), to |-> Node(to_name, f),
              type |-> relation_type, file_id |-> f]}

\* Neo4jManager.create_relationship:
\* MATCH (a {name: $from_name}), (b {name: $to_name}) CREATE (a)-[r ...]->(b)
CreateRelationship(ns, es, from_name, to_name, relation_type, f) ==
    es \cup { [from |-> a, to |-> b, type |-> relation_type, file_id |-> f] :
                a \in {n \in ns : n.name = from_name}, b \in {n \in ns : n.name = to_name} }

\* MATCH (n {file_id: $file_id}) DETACH DELETE n
DetachDeleteNodes(ns, es, f) ==
    [nodes |-> {n \in ns : n.file_id # f},
     edges |-> {e \in es : e.from.file_id # f /\ e.to.file_id # f}]

\* MATCH ()-[r {file_id: $file_id}]-() DELETE r
DeleteRelationships(es, f) == {e \in es : e.file_id # f}

InitKG ==
    /\ kg_file = 0
    /\ kg_all_entities = << >>
    /\ kg_all_relations = << >>
    /\ kg_entities = << >>
    /\ kg_relations = << >>
    /\ kg_pc = "idle"
    /\ kg_i = 0
    /\ kg_log = [f \in FileIds |-> "none"]
    /\ nodes = {}
    /\ edges = {}

\* process_pdf_file steps 4 and 5 for the next uploaded file: _build_knowledge_graph
\* on what the extractors found, then _save_knowledge_graph_to_db is entered.
\* File ids are handed out in upload order.
BuildKnowledgeGraph(f, all_entities, all_relations) ==
    /\ kg_pc = "idle"
    /\ kg_log[f] = "none"
    /\ \A g \in FileIds : g < f => kg_log[g] # "none"
    /\ kg_file' = f
    /\ kg_all_entities' = all_entities
    /\ kg_all_relations' = all_relations
    /\ kg_entities' = DeduplicateEntities(all_entities)
    /\ kg_relations' = OptimizeRelations(all_relations, kg_entities')
    /\ kg_pc' = IF kg_entities' # << >> THEN "entities" ELSE "relations"
    /\ kg_i' = 1
    /\ kg_log' = [kg_log EXCEPT ![f] = "saving"]
    /\ UNCHANGED <<nodes, edges>>

\* the except branch of _save_knowledge_graph_to_db: the error is logged and the
\* remaining writes are skipped
SaveAborted ==
    /\ kg_log' = [kg_log EXCEPT ![kg_file] = "failed"]
    /\ kg_pc' = "idle"
    /\ kg_i' = 0
    /\ kg_file' = 0
    /\ kg_all_entities' = << >>
    /\ kg_all_relations' = << >>
    /\ kg_entities' = << >>
    /\ kg_relations' = << >>

\* one turn of the entity loop: create_entity returns (ok) or raises
SaveEntity(ok) ==
    /\ kg_pc = "entities"
    /\ IF ok
       THEN /\ nodes' = CreateEntity(nodes, kg_entities[kg_i], kg_file)
            /\ kg_pc' = IF kg_i < Len(kg_entities) THEN "entities" ELSE "relations"
            /\ kg_i' = IF kg_i < Len(kg_entities) THEN kg_i + 1 ELSE 1
            /\ UNCHANGED <<kg_file, kg_all_entities, kg_all_relations, kg_entities,
                           kg_relations, kg_log>>
       ELSE /\ SaveAborted
            /\ UNCHANGED nodes
    /\ UNCHANGED edges

\* one turn of the relation loop: create_relationship returns (ok) or raises
SaveRelation(ok) ==
    /\ kg_pc = "relations"
    /\ kg_i <= Len(kg_relations)
    /\ IF ok
       THEN /\ edges' = CreateRelationship(nodes, edges, kg_relations[kg_i].subject,
                                           kg_relations[kg_i].object,
                                           kg_relations[kg_i].predicate, kg_file)
            /\ kg_i' = kg_i + 1
            /\ UNCHANGED <<kg_file, kg_all_entities, kg_all_relations, kg_entities,
                           kg_relations, kg_pc, kg_log>>
       ELSE /\ SaveAborted
            /\ UNCHANGED edges
    /\ UNCHANGED nodes

\* both loops are through: _save_knowledge_graph_to_db logs the counts and returns
SaveDone ==
    /\ kg_pc = "relations"
    /\ kg_i > Len(kg_relations)
    /\ kg_log' = [kg_log EXCEPT ![kg_file] = "saved"]
    /\ kg_pc' = "idle"
    /\ kg_i' = 0
    /\ kg_file' = 0
    /\ kg_all_entities' = << >>
    /\ kg_all_relations' = << >>
    /\ kg_entities' = << >>
    /\ kg_relations' = << >>
    /\ UNCHANGED <<nodes, edges>>

\* FileService._delete_graph_data(file_id), run by a request thread: `done` is the
\* number of its two queries that ran before one raised (the exception is logged)
DeleteGraphData(f, done) ==
    /\ LET detached == DetachDeleteNodes(nodes, edges, f)
       IN /\ nodes' = IF done >= 1 THEN detached.nodes ELSE nodes
          /\ edges' = IF done = 2 THEN DeleteRelationships(detached.edges, f)
                      ELSE IF done = 1 THEN detached.edges ELSE edges
    /\ UNCHANGED <<kg_file, kg_all_entities, kg_all_relations, kg_entities, kg_relations,
                   kg_pc, kg_i, kg_log>>

(***************************************************************************)
(* C8 - Referential integrity.  Whatever documents have been ingested,     *)
(* whichever writes failed and whatever was deleted, every relation in the *)
(* graph store connects two entities that are present in the store: its    *)
(* subject name and its object name are names of stored entities.          *)
(***************************************************************************)
C8_ReferentialIntegrity ==
    \A e \in edges :
        /\ e.from \in nodes
        /\ e.to \in nodes
        /\ \E n \in nodes : n.name = e.from.name
        /\ \E n \in nodes : n.name = e.to.name

\* a save was cut short by a failed write after it had stored a relation
C8_Witness ==
    \E f \in FileIds :
        /\ kg_log[f] = "failed"
        /\ \E e \in edges : e.file_id = f

(***************************************************************************)
(* C9 - Relation optimisation keeps a relation only if its subject and its *)
(* object are both names of canonical (deduplicated) entities, compared    *)
(* exactly; a relation that names an absorbed spelling is dropped, and no  *)
(* write to the graph store is made for it.                                *)
(***************************************************************************)
CanonicalNames == EntityNames(kg_entities)

KeptRelationsAreCanonical ==
    kg_pc # "idle" =>
        /\ kg_entities = DeduplicateEntities(kg_all_entities)
        /\ \A i \in 1..Len(kg_relations) :
              /\ kg_relations[i].subject \in CanonicalNames
              /\ kg_relations[i].object \in CanonicalNames
              /\ \E j \in 1..Len(kg_all_relations) : kg_relations[i] = kg_all_relations[j]

DroppedRelationsNotWritten ==
    (\E ok \in BOOLEAN : SaveRelation(ok)) =>
        \A e \in edges' \ edges :
            /\ e.file_id = kg_file
            /\ e.from.name \in CanonicalNames
            /\ e.to.name \in CanonicalNames
            /\ \E i \in 1..Len(kg_relations) :
                  /\ kg_relations[i].subject = e.from.name
                  /\ kg_relations[i].predicate = e.type
                  /\ kg_relations[i].object = e.to.name

C9_OptimizeRelations == []KeptRelationsAreCanonical /\ [][DroppedRelationsNotWritten]_vars

\* every kept relation has been written, and a relation naming an absorbed
\* spelling of a canonical entity was dropped
C9_Witness ==
    /\ kg_pc = "relations"
    /\ kg_i > Len(kg_relations)
    /\ \E e \in edges : e.file_id = kg_file
    /\ \E j \in 1..Len(kg_all_relations) :
          /\ kg_all_relations[j].object \notin CanonicalNames
          /\ \E n \in CanonicalNames : Lower(n) = Lower(kg_all_relations[j].object)
          /\ \A i \in 1..Len(kg_relations) : kg_relations[i] # kg_all_relations[j]

(***************************************************************************)
(* SearchService._vector_search: _merge_and_deduplicate, _rerank_results,  *)
(* the threshold filter and the top_k cut.                                 *)
(* A hit is [chunk_id, source, score, final_score].  A fused score is kept *)
(* as the integer RrfScale * score, exact for every sum of 1/(k + rank).   *)
(***************************************************************************)
MaxHits == 2
DocIds == {"docX", "docY", "docZ"}
HitScores == {5, 9}

\* k = 60 in _rerank_results
rrf_k == 60

\* search_config.get("similarity_threshold", 0.7), in tenths
similarity_threshold == 7

\* search_config.get("top_k", 10)
top_k == 10

RECURSIVE RrfScaleUpTo(_)
RrfScaleUpTo(n) == IF n = 0 THEN 1 ELSE (rrf_k + n) * RrfScaleUpTo(n - 1)

\* the common denominator of 1/(k + 1) .. 1/(k + MaxHits)
RrfScale == RrfScaleUpTo(MaxHits)

\* 1.0 / (k + rank)
Reciprocal(rank) == RrfScale \div (rrf_k + rank)

Hit(chunk_id, source, score) ==
    [chunk_id |-> chunk_id, source |-> source, score |-> score, final_score |-> 0]

\* what a search engine returns: at most MaxHits hits of distinct units, best first
HitLists(source) ==
    UNION { { [i \in 1..n |-> Hit(ids[i], source, scores[i])] :
                ids \in {s \in [1..n -> DocIds] : \A i, j \in 1..n : i # j => s[i] # s[j]},
                scores \in {s \in [1..n -> HitScores] : \A i \in 1..(n - 1) : s[i] >= s[i + 1]} } :
            n \in 0..MaxHits }

\* the loop of _merge_and_deduplicate from result i on, with seen_chunks = seen
RECURSIVE MergeFrom(_, _, _)
MergeFrom(all_results, i, seen) ==
    IF i > Len(all_results) THEN << >>
    ELSE IF all_results[i].chunk_id \notin seen
         THEN <<all_results[i]>> \o MergeFrom(all_results, i + 1, seen \cup {all_results[i].chunk_id})
         ELSE MergeFrom(all_results, i + 1, seen)

\* _merge_and_deduplicate(bm25_results, vector_results)
MergeAndDeduplicate(bm25_results, vector_results) ==
    MergeFrom(bm25_results \o vector_results, 1, {})

\* [r for r in results if r.get("source") == source]
RECURSIVE FromSource(_, _)
FromSource(results, source) ==
    IF results = << >> THEN << >>
    ELSE IF Head(results).source = source
         THEN <<Head(results)>> \o FromSource(Tail(results), source)
         ELSE FromSource(Tail(results), source)

\* the place of x in a list that is sorted by key, largest first: behind every
\* element whose key is not smaller (sorted() is stable)
RECURSIVE InsertByKey(_, _, _)
InsertByKey(sorted, x, key) ==
    IF sorted = << >> THEN <<x>>
    ELSE IF Head(sorted)[key] >= x[key]
         THEN <<Head(sorted)>> \o InsertByKey(Tail(sorted), x, key)
         ELSE <<x>> \o sorted

\* sorted(results, key=lambda x: x.get(key, 0), reverse=True)
RECURSIVE SortedDesc(_, _)
SortedDesc(results, key) ==
    IF results = << >> THEN << >>
    ELSE InsertByKey(SortedDesc(SubSeq(results, 1, Len(results) - 1), key),
                     results[Len(results)], key)

\* the sum of 1/(k + rank) over the places chunk_id holds in a ranked list
RankContribution(ranked, chunk_id) ==
    LET places == {i \in 1..Len(ranked) : ranked[i].chunk_id = chunk_id}
    IN IF places = {} THEN 0 ELSE Reciprocal(CHOOSE i \in places : TRUE)

\* a fusion that adds this run's contributions to the scores the previous run left
RerankResults_Accumulating(results) ==
    IF results = << >> THEN << >>
    ELSE LET bm25_results == SortedDesc(FromSource(results, "bm25"), "score")
             vector_results == SortedDesc(FromSource(results, "vector"), "score")
             before(chunk_id) ==
                 LET old == {i \in 1..Len(rrf_reranked) : rrf_reranked[i].chunk_id = chunk_id}
                 IN IF old = {} THEN 0 ELSE rrf_reranked[CHOOSE i \in old : TRUE].final_score
             scored == [i \in 1..Len(results) |->
                          [results[i] EXCEPT !.final_score =
                              before(results[i].chunk_id)
                              + RankContribution(bm25_results, results[i].chunk_id)
                              + RankContribution(vector_results, results[i].chunk_id)]]
         IN SortedDesc(scored, "final_score")

\* _rerank_results(query, results)
RerankResults(results) ==
    IF results = << >> THEN << >>
    ELSE LET bm25_results == SortedDesc(FromSource(results, "bm25"), "score")
             vector_results == SortedDesc(FromSource(results, "vector"), "score")
             scored == [i \in 1..Len(results) |->
                          [results[i] EXCEPT !.final_score =
                              RankContribution(bm25_results, results[i].chunk_id)
                              + RankContribution(vector_results, results[i].chunk_id)]]
         IN SortedDesc(scored, "final_score")

\* result.get("final_score", 0) >= threshold
PassesThreshold(result) == 10 * result.final_score >= similarity_threshold * RrfScale

RECURSIVE ThresholdFilter(_)
ThresholdFilter(results) ==
    IF results = << >> THEN << >>
    ELSE IF PassesThreshold(Head(results))
         THEN <<Head(results)>> \o ThresholdFilter(Tail(results))
         ELSE ThresholdFilter(Tail(results))

InitRRFWith(has_data, bm25_results, vector_results) ==
    /\ has_vector_data = has_data
    /\ rrf_bm25 = bm25_results
    /\ rrf_vector = vector_results
    /\ rrf_combined = << >>
    /\ rrf_reranked = << >>
    /\ rrf_final = << >>
    /\ rrf_rerun = << >>
    /\ rrf_pc = "query"

\* what the two engines would return for the query, and whether Milvus holds data
InitRRF ==
    \E has_data \in BOOLEAN, bm25_results \in HitLists("bm25"), vector_results \in HitLists("vector") :
        InitRRFWith(has_data, bm25_results, vector_results)

\* _vector_search(query)
VectorSearch ==
    /\ rrf_pc = "query"
    /\ rrf_pc' = "done"
    /\ IF ~has_vector_data
       THEN UNCHANGED <<rrf_combined, rrf_reranked, rrf_final>>
       ELSE /\ rrf_combined' = MergeAndDeduplicate(rrf_bm25, rrf_vector)
            /\ rrf_reranked' = RerankResults(rrf_combined')
            /\ rrf_final' = LET kept == ThresholdFilter(rrf_reranked')
                            IN SubSeq(kept, 1, Min(top_k, Len(kept)))
    /\ UNCHANGED <<has_vector_data, rrf_bm25, rrf_vector, rrf_rerun>>

\* a second _vector_search for the same query: the engines return the same
\* candidate lists (same ids, order and native scores) in fresh dicts
VectorSearchAgain ==
    /\ rrf_pc = "done"
    /\ rrf_pc' = "again"
    /\ rrf_rerun' = IF ~has_vector_data THEN << >>
                    ELSE RerankResults(MergeAndDeduplicate(rrf_bm25, rrf_vector))
    /\ UNCHANGED <<has_vector_data, rrf_bm25, rrf_vector, rrf_combined, rrf_reranked, rrf_final>>

(***************************************************************************)
(* C10 - Reciprocal Rank Fusion.  After a search over a populated vector   *)
(* store the fused list holds every returned unit once, best fused score   *)
(* first, and the fused score of a unit is the sum over the two candidate  *)
(* lists of 1/(k + its rank in the list), a list that does not hold it     *)
(* contributing 0; for lexical = [docX, docY] and vector = [docY, docZ]    *)
(* with k = 60 the fused order is [docY, docX, docZ].                      *)
(***************************************************************************)
FusedScore(chunk_id) ==
    RankContribution(rrf_bm25, chunk_id) + RankContribution(rrf_vector, chunk_id)

ChunkIdsOf(results) == [i \in 1..Len(results) |-> results[i].chunk_id]

C10_ReciprocalRankFusion ==
    (rrf_pc = "done" /\ has_vector_data) =>
        /\ \A i \in 1..Len(rrf_reranked) :
              rrf_reranked[i].final_score = FusedScore(rrf_reranked[i].chunk_id)
        /\ \A i \in 1..(Len(rrf_reranked) - 1) :
              FusedScore(rrf_reranked[i].chunk_id) >= FusedScore(rrf_reranked[i + 1].chunk_id)
        /\ (ChunkIdsOf(rrf_bm25) = <<"docX", "docY">> /\ ChunkIdsOf(rrf_vector) = <<"docY", "docZ">>)
              => ChunkIdsOf(rrf_reranked) = <<"docY", "docX", "docZ">>

NumUploads == 2
UploadIds == 1..NumUploads

InitUpload ==
    /\ file_threads = {}
    /\ processing_status = [f \in UploadIds |-> "none"]
    /\ file_pc = [f \in UploadIds |-> "none"]
    /\ timeout_timer = [f \in UploadIds |-> "none"]

\* upload_file for a file that passes the type and size checks: the file is stored
\* with status 'uploaded' and _start_file_processing starts a daemon thread for it.
\* File ids are handed out in upload order.
UploadFile(f) ==
    /\ processing_status[f] = "none"
    /\ \A g \in UploadIds : g < f => processing_status[g] # "none"
    /\ processing_status' = [processing_status EXCEPT ![f] = "uploaded"]
    /\ file_threads' = file_threads \cup {f}
    /\ file_pc' = [file_pc EXCEPT ![f] = "begin"]
    /\ UNCHANGED <<timeout_timer, govVars>>

\* timeout_timer.cancel(): a timer that has not fired will not fire
CancelTimer(timer) == IF timer = "armed" THEN "cancelled" ELSE timer

\* _process_file_content_safe up to timeout_timer.start(): the thread finds the file,
\* sets the status and arms the timer; a missing file raises and the except branch
\* runs _handle_processing_failure
ProcessFileStart(f, exists) ==
    /\ f \in file_threads
    /\ file_pc[f] = "begin"
    /\ IF exists
       THEN /\ processing_status' = [processing_status EXCEPT ![f] = "processing"]
            /\ timeout_timer' = [timeout_timer EXCEPT ![f] = "armed"]
            /\ file_pc' = [file_pc EXCEPT ![f] = "extract"]
            /\ UNCHANGED file_threads
       ELSE /\ processing_status' = [processing_status EXCEPT ![f] = "failed"]
            /\ file_pc' = [file_pc EXCEPT ![f] = "end"]
            /\ file_threads' = file_threads \ {f}
            /\ UNCHANGED timeout_timer
    /\ UNCHANGED govVars

\* _safe_pdf_text_extraction returns (ok) and the status is set to processing with
\* progress 50, or it raises: _handle_processing_failure, then the finally branch
TextExtracted(f, ok) ==
    /\ f \in file_threads
    /\ file_pc[f] = "extract"
    /\ IF ok
       THEN /\ processing_status' = [processing_status EXCEPT ![f] = "processing"]
            /\ file_pc' = [file_pc EXCEPT ![f] = "save"]
            /\ UNCHANGED <<file_threads, timeout_timer>>
       ELSE /\ processing_status' = [processing_status EXCEPT ![f] = "failed"]
            /\ timeout_timer' = [timeout_timer EXCEPT ![f] = CancelTimer(@)]
            /\ file_pc' = [file_pc EXCEPT ![f] = "end"]
            /\ file_threads' = file_threads \ {f}
    /\ UNCHANGED govVars

\* _process_file_content_safe from _save_processing_result on: the timer is cancelled,
\* the status is set to completed and the files row is updated (ok), or the update
\* raises and _handle_processing_failure runs; the thread ends
ProcessFileEnd(f, ok) ==
    /\ f \in file_threads
    /\ file_pc[f] = "save"
    /\ timeout_timer' = [timeout_timer EXCEPT ![f] = CancelTimer(@)]
    /\ processing_status' = [processing_status EXCEPT ![f] = IF ok THEN "completed" ELSE "failed"]
    /\ file_pc' = [file_pc EXCEPT ![f] = "end"]
    /\ file_threads' = file_threads \ {f}
    /\ UNCHANGED govVars

\* the Timer thread after 60 seconds: timeout_handler runs _handle_processing_failure
TimeoutHandler(f) ==
    /\ timeout_timer[f] = "armed"
    /\ timeout_timer' = [timeout_timer EXCEPT ![f] = "fired"]
    /\ processing_status' = [processing_status EXCEPT ![f] = "failed"]
    /\ UNCHANGED <<file_threads, file_pc, govVars>>

(***************************************************************************)
(* C14 - Every running ingestion was accepted by the Governor: each has a  *)
(* record in the Governor's active set, and the number of ingestions       *)
(* running at once never exceeds the Governor's concurrency limit.         *)
(***************************************************************************)
C14_IngestionWithinLimit ==
    /\ \A f \in file_threads : f \in DOMAIN active_tasks
    /\ Cardinality(file_threads) <= adaptive_config.max_concurrent_files

(***************************************************************************)
(* C23 - a timed-out document stays failed.  Once the timeout handler has  *)
(* set the status of a document to failed, the status is never processing  *)
(* or completed again, however the timer and the processing thread         *)
(* interleave.                                                             *)
(***************************************************************************)
C23_TimedOutStaysFailed ==
    \A f \in UploadIds : timeout_timer[f] = "fired" => processing_status[f] = "failed"

(***************************************************************************)
(* SearchService.search: one query through _direct_search.  The two        *)
(* candidate stages of _vector_search (lexical BM25, dense vector), the    *)
(* graph stage and _combine_search_results.                                *)
(***************************************************************************)

\* combined[:15]
result_limit == 15

\* "score": 0.8 of every graph path, in tenths like the native scores
graph_score == 8

\* how many paths the graph query returns: none, one, more than the final list holds
PathCounts == {0, 1, result_limit + 1}

\* metadata["type"] of a stored unit
ContentTypes == {"text", "image"}

\* configured similarity_threshold, in tenths: the default and one that filters nothing
ThresholdSamples == {similarity_threshold, 0}

StageOutcome(raises, hits) == [raises |-> raises, hits |-> hits]

\* what a candidate engine does when it is asked: it raises, or it returns a list
StageOutcomes(source) ==
    {StageOutcome(TRUE, << >>)} \cup {StageOutcome(FALSE, hits) : hits \in HitLists(source)}

\* session.run of the path query: it raises, or it returns paths 1..n
GraphOutcomes ==
    {StageOutcome(TRUE, << >>)} \cup {StageOutcome(FALSE, [i \in 1..n |-> i]) : n \in PathCounts}

SearchEnvs ==
    [has_data : BOOLEAN, bm25 : StageOutcomes("bm25"), vector : StageOutcomes("vector"),
     graph : GraphOutcomes, types : [DocIds -> ContentTypes]]

NoSearchEnv ==
    [has_data |-> FALSE, bm25 |-> StageOutcome(FALSE, << >>),
     vector |-> StageOutcome(FALSE, << >>), graph |-> StageOutcome(FALSE, << >>),
     types |-> [d \in DocIds |-> "text"]]

\* _bm25_search: the rows of the full-text query, [] when it raises
Bm25Search(env) == IF env.bm25.raises THEN << >> ELSE env.bm25.hits

\* _dense_vector_search: the hits of milvus_manager.search_vectors, [] when it raises
DenseVectorSearch(env) == IF env.vector.raises THEN << >> ELSE env.vector.hits

\* _has_vector_data: milvus_manager.has_data(), False when it raises
HasVectorData(env) == env.has_data

\* result.get("final_score", 0) >= similarity_threshold for a configured threshold
PassesConfigured(result, threshold) == 10 * result.final_score >= threshold * RrfScale

RECURSIVE ConfiguredFilter(_, _)
ConfiguredFilter(results, threshold) ==
    IF results = << >> THEN << >>
    ELSE IF PassesConfigured(Head(results), threshold)
         THEN <<Head(results)>> \o ConfiguredFilter(Tail(results), threshold)
         ELSE ConfiguredFilter(Tail(results), threshold)

\* the stages _vector_search runs: none when the vector store is empty
VectorStagesRun(env) == IF HasVectorData(env) THEN {"bm25", "vector"} ELSE {}

\* _vector_search
VectorSearchOf(env, threshold) ==
    IF ~HasVectorData(env) THEN << >>
    ELSE LET combined == MergeAndDeduplicate(Bm25Search(env), DenseVectorSearch(env))
             reranked == RerankResults(combined)
             kept     == ConfiguredFilter(reranked, threshold)
         IN  SubSeq(kept, 1, Min(top_k, Len(kept)))

\* _graph_search: the paths of the query, [] when it raises
GraphSearch(env) == IF env.graph.raises THEN << >> ELSE env.graph.hits

\* the combined_item of a vector result
VectorItem(result, types) ==
    [type |-> "vector", content_type |-> types[result.chunk_id],
     chunk_id |-> result.chunk_id, path |-> 0, score |-> result.score]

\* the item of a graph path
GraphItem(path) ==
    [type |-> "graph", content_type |-> "graph", chunk_id |-> "", path |-> path,
     score |-> graph_score]

\* result["metadata"] of a row of the full-text query: the row has no such key
CombineRaises(results) == \E i \in 1..Len(results) : results[i].source = "bm25"

\* (a.content_type != "text", a.score) >= (b.content_type != "text", b.score)
SortKeyGE(a, b) ==
    LET na == IF a.content_type # "text" THEN 1 ELSE 0
        nb == IF b.content_type # "text" THEN 1 ELSE 0
    IN  na > nb \/ (na = nb /\ a.score >= b.score)

RECURSIVE InsertCombined(_, _)
InsertCombined(sorted, x) ==
    IF sorted = << >> THEN <<x>>
    ELSE IF SortKeyGE(Head(sorted), x)
         THEN <<Head(sorted)>> \o InsertCombined(Tail(sorted), x)
         ELSE <<x>> \o sorted

\* combined.sort(key=lambda x: (x.get("content_type") != "text", x["score"]), reverse=True)
RECURSIVE SortCombined(_)
SortCombined(combined) ==
    IF combined = << >> THEN << >>
    ELSE InsertCombined(SortCombined(SubSeq(combined, 1, Len(combined) - 1)),
                        combined[Len(combined)])

VectorItems(results, types) == [i \in 1..Len(results) |-> VectorItem(results[i], types)]

GraphItems(paths) == [i \in 1..Len(paths) |-> GraphItem(paths[i])]

\* _combine_search_results, for vector results that all carry metadata
CombineSearchResults(results, paths, types) ==
    LET combined == SortCombined(VectorItems(results, types) \o GraphItems(paths))
    IN  SubSeq(combined, 1, Min(result_limit, Len(combined)))

\* the dict _direct_search returns; the answer, the session id and the time stamp
\* are not followed
SearchResponse(sources) ==
    [success |-> TRUE, answer |-> "answer", sources |-> sources, session_id |-> "session",
     timestamp |-> "now"]

\* the dict of the except branch of search
SearchFailure == [success |-> FALSE, message |-> "error", session_id |-> "session"]

\* the keys of the two dicts
ResponseKeys == {"success", "answer", "sources", "session_id", "timestamp", "message"}

\* the stages a response names as degraded: what it carries besides the keys above
DegradedStagesOf(response) == UNION {response[key] : key \in DOMAIN response \ ResponseKeys}

InitSearchWith(env, threshold) ==
    /\ search_env = env
    /\ search_config = threshold
    /\ search_ran = {}
    /\ search_vector_results = << >>
    /\ search_graph_results = << >>
    /\ search_response = [success |-> FALSE]
    /\ search_pc = "query"

InitSearch == \E env \in SearchEnvs, threshold \in ThresholdSamples : InitSearchWith(env, threshold)

\* search(query) in the non-streaming mode: _direct_search, and the except
\* branch of search when _combine_search_results raises
Search ==
    /\ search_pc = "query"
    /\ search_pc' = "done"
    /\ search_ran' = VectorStagesRun(search_env) \cup {"graph"}
    /\ search_vector_results' = VectorSearchOf(search_env, search_config)
    /\ search_graph_results' = GraphSearch(search_env)
    /\ search_response' =
          IF CombineRaises(search_vector_results')
          THEN SearchFailure
          ELSE SearchResponse(CombineSearchResults(search_vector_results',
                                                   search_graph_results',
                                                   search_env.types))
    /\ UNCHANGED <<search_env, search_config>>

\* the stages that ran for the query and raised
FailedStages == {s \in search_ran : search_env[s].raises}

(***************************************************************************)
(* C15 - stage failure isolation.  When exactly one of the lexical, dense  *)
(* and graph stages raises while serving a query, the error does not reach *)
(* the caller: the query completes successfully, the failed stage          *)
(* contributes an empty candidate list and the answer is built from the    *)
(* candidates of the stages that did not fail.                             *)
(***************************************************************************)
C15_StageFailureIsolated ==
    (search_pc = "done" /\ Cardinality(FailedStages) = 1) =>
        /\ search_response.success
        /\ "graph" \in FailedStages => search_graph_results = << >>
        /\ \A i \in 1..Len(search_vector_results) :
              search_vector_results[i].source \notin FailedStages
        /\ search_response.sources =
              CombineSearchResults(search_vector_results, search_graph_results,
                                   search_env.types)

(***************************************************************************)
(* C16 - empty vector store.  When the vector store holds no data, only    *)
(* the dense stage comes back empty: the lexical stage still runs, its     *)
(* candidates are fused and filtered as usual and handed on to the final   *)
(* list, and the graph stage still runs.                                   *)
(***************************************************************************)
C16_EmptyVectorStore ==
    (search_pc = "done" /\ ~search_env.has_data) =>
        /\ "bm25" \in search_ran
        /\ "graph" \in search_ran
        /\ search_vector_results =
              VectorSearchOf([search_env EXCEPT !.has_data = TRUE,
                                               !.vector = StageOutcome(FALSE, << >>)],
                             search_config)

(***************************************************************************)
(* C17 - degraded-stage annotation.  The result of a query names the       *)
(* stages that degraded while it was served: the annotation holds exactly  *)
(* the stages that raised, and is empty exactly when no stage failed.      *)
(***************************************************************************)
C17_DegradedAnnotation ==
    search_pc = "done" => DegradedStagesOf(search_response) = FailedStages

(***************************************************************************)
(* C18 - composition of the final list.  The list a query returns is the   *)
(* fused and filtered vector list, in its order, followed by the graph     *)
(* paths as a category of their own (appended, not ranked among the vector *)
(* results by score), the whole cut to the result limit.                   *)
(***************************************************************************)
C18_GraphPathsAppended ==
    (search_pc = "done" /\ search_response.success) =>
        LET appended == VectorItems(search_vector_results, search_env.types)
                            \o GraphItems(search_graph_results)
        IN  search_response.sources = SubSeq(appended, 1, Min(result_limit, Len(appended)))

(***************************************************************************)
(* C19 - multimedia priority.  Multimedia results are preferred to text    *)
(* only among results of equal score: in the returned list a text result   *)
(* with a strictly higher score stands before every multimedia result of   *)
(* lower score.                                                            *)
(***************************************************************************)
C19_TextWithHigherScoreFirst ==
    (search_pc = "done" /\ search_response.success) =>
        LET sources == search_response.sources
        IN  \A i, j \in 1..Len(sources) :
               (/\ sources[i].content_type = "text"
                /\ sources[j].content_type \notin {"text", "graph"}
                /\ sources[i].score > sources[j].score) => i < j

(***************************************************************************)
(* GraphRAGService._build_knowledge_graph: what the extractors collect     *)
(* from the content units of one document.  A text unit is one batch of    *)
(* text chunks (one model call); a table unit is one table chunk with the  *)
(* header row [its own field, "h"].  A unit that fails is a text batch     *)
(* whose model call raises, or a table chunk whose table_data holds a row  *)
(* that cannot be iterated.                                                *)
(***************************************************************************)
MaxUnits == 3

\* the name the i-th unit of a document yields
UnitNames == << <<"a">>, <<"b">>, <<"c">>, <<"d">>, <<"e">> >>

SharedHeader == <<"h">>

ContentUnit(content_type, fails) == [content_type |-> content_type, fails |-> fails]

ContentUnits ==
    UNION { [1..n -> {ContentUnit(t, f) : t \in {"text", "table"}, f \in BOOLEAN}] :
            n \in 0..MaxUnits }

RECURSIVE ConcatAll(_)
ConcatAll(lists) == IF lists = << >> THEN << >> ELSE Head(lists) \o ConcatAll(Tail(lists))

UnitsOfType(units, content_type) == {i \in 1..Len(units) : units[i].content_type = content_type}

\* _extract_entities_relations_from_text: _extract_entities_from_text returns [] for a
\* batch whose model call raises, and the loop goes on with the next batch
TextEntities(units) ==
    ConcatAll([i \in 1..Len(units) |->
                 IF units[i].content_type = "text" /\ ~units[i].fails
                 THEN <<Extracted(i, UnitNames[i], "CONCEPT", 8, "A")>>
                 ELSE << >>])

\* the entities the loop of _extract_entities_relations_from_tables appends for chunk i
TableUnitEntities(i) ==
    <<Extracted(i, UnitNames[i], "TABLE_FIELD", 9, "A"),
      Extracted(i, SharedHeader, "TABLE_FIELD", 9, "A")>>

\* the relation between the two header fields of chunk i
TableUnitRelations(i) == <<Relation(i, UnitNames[i], <<"RELATED_FIELD">>, SharedHeader)>>

\* the loop of _extract_entities_relations_from_tables over chunks it can read
TableExtraction_PerUnit(units) ==
    [entities |-> ConcatAll([i \in 1..Len(units) |->
                    IF units[i].content_type = "table" /\ ~units[i].fails
                    THEN TableUnitEntities(i) ELSE << >>]),
     relations |-> ConcatAll([i \in 1..Len(units) |->
                    IF units[i].content_type = "table" /\ ~units[i].fails
                    THEN TableUnitRelations(i) ELSE << >>])]

\* _extract_entities_relations_from_tables: one try around the loop over the table
\* chunks; the except branch returns [], []
TableExtraction(units) ==
    IF \E i \in UnitsOfType(units, "table") : units[i].fails
    THEN [entities |-> << >>, relations |-> << >>]
    ELSE TableExtraction_PerUnit(units)

\* _build_knowledge_graph: all_entities, all_relations, then dedup and optimize
BuildResult(units) ==
    LET tables == TableExtraction(units)
        entities == DeduplicateEntities(TextEntities(units) \o tables.entities)
    IN  [entities |-> entities, relations |-> OptimizeRelations(tables.relations, entities)]

InitExtractWith(units) ==
    /\ ex_units = units
    /\ ex_result = [entities |-> << >>, relations |-> << >>]
    /\ ex_pc = "build"

InitExtract == \E units \in ContentUnits : InitExtractWith(units)

BuildFromUnits ==
    /\ ex_pc = "build"
    /\ ex_result' = BuildResult(ex_units)
    /\ ex_pc' = "done"
    /\ UNCHANGED ex_units

(***************************************************************************)
(* C21 - extraction failure of one content unit.  A unit whose extraction  *)
(* fails contributes nothing, and what was extracted from every other unit *)
(* of the document (before or after it) is in the build result.            *)
(***************************************************************************)
C21_UnitFailureIsolated ==
    ex_pc = "done" =>
        \A i \in 1..Len(ex_units) :
            IF ex_units[i].fails
            THEN UnitNames[i] \notin EntityNames(ex_result.entities)
            ELSE /\ UnitNames[i] \in EntityNames(ex_result.entities)
                 /\ ex_units[i].content_type = "table" =>
                       \E j \in 1..Len(ex_result.relations) :
                           ex_result.relations[j].subject = UnitNames[i]

(***************************************************************************)
(* C25 - threshold filter.  A candidate is kept if and only if its score   *)
(* is at least the configured similarity threshold; the score is the fused *)
(* RRF score when both the lexical and the vector source returned          *)
(* candidates, and the native score of the sole source when only one of    *)
(* them returned candidates.                                               *)
(***************************************************************************)
C25_ThresholdFilter ==
    (search_pc = "done" /\ search_env.has_data) =>
        LET bm25     == Bm25Search(search_env)
            dense    == DenseVectorSearch(search_env)
            reranked == RerankResults(MergeAndDeduplicate(bm25, dense))
            Kept(result) == IF bm25 # << >> /\ dense # << >>
                            THEN PassesConfigured(result, search_config)
                            ELSE result.score >= search_config
        IN  {search_vector_results[i].chunk_id : i \in 1..Len(search_vector_results)}
               = {reranked[i].chunk_id : i \in {j \in 1..Len(reranked) : Kept(reranked[j])}}

(***************************************************************************)
(* GraphRAGService._extract_entities_from_text and _parse_entities_response *)
(* A reply is described by its fence (```json, ``` or none), its format    *)
(* ("object": the text between the first { and the last } is a JSON         *)
(* object; "broken": there are braces but json.loads raises; "text": there *)
(* are no braces), the items of the object's "entities" list, and the      *)
(* "name (type)" lines the reply contains.                                  *)
(***************************************************************************)
MaxReplyEntities == 2

ReplyNames == {<<"a">>, <<"b">>}

\* an item of the "entities" list: a dict with a name (and no "type" key), a dict
\* without a name, or a value that is not a dict
JsonItems ==
    {[is_dict |-> TRUE, name |-> n] : n \in ReplyNames \cup {<< >>}}
        \cup {[is_dict |-> FALSE, name |-> << >>]}

LineMatches == [name : ReplyNames, type : {"ORG"}]

Replies ==
    {[fence |-> f, format |-> "object", json_entities |-> items, line_entities |-> lines] :
        f \in {"json", "plain", "none"},
        items \in UNION {[1..n -> JsonItems] : n \in 0..MaxReplyEntities},
        lines \in UNION {[1..n -> LineMatches] : n \in 0..MaxReplyEntities}}
    \cup
    {[fence |-> f, format |-> fmt, json_entities |-> << >>, line_entities |-> lines] :
        f \in {"json", "plain", "none"},
        fmt \in {"broken", "text"},
        lines \in UNION {[1..n -> LineMatches] : n \in 0..MaxReplyEntities}}

NoReply == [fence |-> "none", format |-> "text", json_entities |-> << >>,
            line_entities |-> << >>]

\* the fence is stripped first; the JSON text is then cut from the first { to the last }
ParseEntitiesResponse(response) ==
    IF response.format = "object"
    THEN LET named == SelectSeq(response.json_entities,
                                LAMBDA e : e.is_dict /\ e.name # << >>)
         IN  [i \in 1..Len(named) |->
                 [name |-> named[i].name, type |-> "UNKNOWN", confidence |-> 8]]
    ELSE << >>

\* FileService._parse_entities_from_text, the line-pattern parser
ParseEntitiesFromText(response) ==
    [i \in 1..Len(response.line_entities) |->
        [name |-> response.line_entities[i].name,
         type |-> response.line_entities[i].type, confidence |-> 7]]

InitParseWith(configured, reply) ==
    /\ parse_prompt = configured
    /\ llm_reply = reply
    /\ parsed_entities = << >>
    /\ parse_pc = "call"

InitParse == \E configured \in BOOLEAN, reply \in Replies : InitParseWith(configured, reply)

\* call_ok is FALSE when _call_llm raises; every exception is caught and [] returned
ExtractEntitiesFromText(call_ok) ==
    /\ parse_pc = "call"
    /\ parsed_entities' = IF parse_prompt /\ call_ok
                          THEN ParseEntitiesResponse(llm_reply)
                          ELSE << >>
    /\ parse_pc' = IF parse_prompt /\ call_ok THEN "parsed" ELSE "call_failed"
    /\ UNCHANGED <<parse_prompt, llm_reply>>

(***************************************************************************)
(* C26 - fallback parser.  When the reply of the model cannot be parsed as *)
(* the structured format, text extraction returns the entities the         *)
(* line-pattern parser finds in the reply.                                 *)
(***************************************************************************)
C26_FallbackParser ==
    (parse_pc = "parsed" /\ llm_reply.format # "object") =>
        parsed_entities = ParseEntitiesFromText(llm_reply)

(***************************************************************************)
(* GraphRAGService._optimize_relations on names and predicates that hold   *)
(* the character "_", as the predicate names of the extractors do          *)
(* (RELATED_FIELD, DISPLAYED_IN).                                          *)
(***************************************************************************)
MaxOptRelations == 2
MaxOptEntities == 2

OptNames == {<<"a">>, <<"a", "_", "b">>}
OptPredicates == {<<"R">>, <<"b", "_", "R">>}

OptRelationLists ==
    UNION {{[i \in 1..n |-> Relation(i, s[i], p[i], o[i])] :
               s \in [1..n -> OptNames], p \in [1..n -> OptPredicates],
               o \in [1..n -> OptNames]} : n \in 0..MaxOptRelations}

OptEntityLists ==
    UNION {{[i \in 1..n |-> Extracted(i, names[i], "CONCEPT", 8, "A")] :
               names \in [1..n -> OptNames]} : n \in 0..MaxOptEntities}

InitOptWith(relations, entities) ==
    /\ opt_relations = relations
    /\ opt_entities = entities
    /\ opt_optimized = << >>
    /\ opt_pc = "call"

InitOpt ==
    \E relations \in OptRelationLists, entities \in OptEntityLists :
        InitOptWith(relations, entities)

OptimizeRelationsCall ==
    /\ opt_pc = "call"
    /\ opt_optimized' = OptimizeRelations(opt_relations, opt_entities)
    /\ opt_pc' = "done"
    /\ UNCHANGED <<opt_relations, opt_entities>>

SameTriple(r, q) ==
    r.subject = q.subject /\ r.predicate = q.predicate /\ r.object = q.object

(***************************************************************************)
(* C27 - duplicate relations.  A relation whose subject and object both    *)
(* exist among the entities, and whose (subject, predicate, object) triple *)
(* differs from that of every earlier relation of the input, is kept by    *)
(* optimize_relations.                                                     *)
(***************************************************************************)
C27_OnlyEqualTriplesRemoved ==
    opt_pc = "done" =>
        \A i \in 1..Len(opt_relations) :
            (/\ opt_relations[i].subject \in EntityNames(opt_entities)
             /\ opt_relations[i].object \in EntityNames(opt_entities)
             /\ \A j \in 1..(i - 1) : ~SameTriple(opt_relations[j], opt_relations[i]))
                => \E k \in 1..Len(opt_optimized) : opt_optimized[k] = opt_relations[i]

(***************************************************************************)
(* AsyncProcessor: start_workers, submit_task, _worker and stop.  The      *)
(* coroutines run on one event loop; a step is the code between two        *)
(* suspension points.  A put on the unbounded queue does not suspend, so   *)
(* the signalling loop of stop() is one step.  Which of the workers        *)
(* waiting in task_queue.get() receives the next item is left open.        *)
(* _process_with_batch and _process_single_task return a result (an error  *)
(* result when the processing failed).                                     *)
(***************************************************************************)
NumPTasks == 2
PTaskIds == 1..NumPTasks
MaxStartedWorkers == 4
WorkerInstances == 1..MaxStartedWorkers
NumWorkersSamples == {1, 2}

\* the stop signal None in the queue
StopSignal == 0

\* the worker instances created so far
StartedWorkers == {w \in WorkerInstances : ap_wpc[w] # "unstarted"}

InitProc ==
    /\ ap_task_queue = << >>
    /\ ap_workers = << >>
    /\ ap_wpc = [w \in WorkerInstances |-> "unstarted"]
    /\ ap_wtask = [w \in WorkerInstances |-> 0]
    /\ ap_result_cache = {}
    /\ ap_submitted = [t \in PTaskIds |-> "no"]
    /\ ap_stop_pc = "idle"

\* start_workers(num_workers): worker i is created and stored under the key
\* "worker-i", replacing what the key held
StartWorkers(num_workers) ==
    LET first == Cardinality(StartedWorkers)
    IN  /\ ap_stop_pc = "idle"
        /\ first + num_workers <= MaxStartedWorkers
        /\ ap_workers' = [i \in (DOMAIN ap_workers) \cup (1..num_workers) |->
                             IF i <= num_workers THEN first + i ELSE ap_workers[i]]
        /\ ap_wpc' = [w \in WorkerInstances |->
                         IF w \in (first + 1)..(first + num_workers) THEN "waiting"
                         ELSE ap_wpc[w]]
        /\ UNCHANGED <<ap_task_queue, ap_wtask, ap_result_cache, ap_submitted, ap_stop_pc>>

\* AsyncProcessor.submit_task(task)
ProcessorSubmitTask(t) ==
    /\ ap_submitted[t] = "no"
    /\ ap_task_queue' = Append(ap_task_queue, t)
    /\ ap_submitted' = [ap_submitted EXCEPT ![t] = IF ap_stop_pc = "idle" THEN "early" ELSE "late"]
    /\ UNCHANGED <<ap_workers, ap_wpc, ap_wtask, ap_result_cache, ap_stop_pc>>

\* _worker: task = await self.task_queue.get(); the stop signal ends the loop
WorkerTakeItem(w) ==
    /\ ap_wpc[w] = "waiting"
    /\ ap_task_queue # << >>
    /\ ap_task_queue' = Tail(ap_task_queue)
    /\ IF Head(ap_task_queue) = StopSignal
       THEN /\ ap_wpc' = [ap_wpc EXCEPT ![w] = "terminated"]
            /\ UNCHANGED ap_wtask
       ELSE /\ ap_wpc' = [ap_wpc EXCEPT ![w] = "processing"]
            /\ ap_wtask' = [ap_wtask EXCEPT ![w] = Head(ap_task_queue)]
    /\ UNCHANGED <<ap_workers, ap_result_cache, ap_submitted, ap_stop_pc>>

\* _worker: self.result_cache[task.task_id] = result, then back to get()
WorkerStoreResult(w) ==
    /\ ap_wpc[w] = "processing"
    /\ ap_result_cache' = ap_result_cache \cup {ap_wtask[w]}
    /\ ap_wpc' = [ap_wpc EXCEPT ![w] = "waiting"]
    /\ ap_wtask' = [ap_wtask EXCEPT ![w] = 0]
    /\ UNCHANGED <<ap_task_queue, ap_workers, ap_submitted, ap_stop_pc>>

\* stop(): one stop signal per key of self.workers ...
Stop ==
    /\ ap_stop_pc = "idle"
    /\ ap_task_queue' = ap_task_queue \o [i \in 1..Cardinality(DOMAIN ap_workers) |-> StopSignal]
    /\ ap_stop_pc' = "awaiting"
    /\ UNCHANGED <<ap_workers, ap_wpc, ap_wtask, ap_result_cache, ap_submitted>>

\* ... then `await worker` for every value of self.workers
StopReturn ==
    /\ ap_stop_pc = "awaiting"
    /\ \A i \in DOMAIN ap_workers : ap_wpc[ap_workers[i]] = "terminated"
    /\ ap_stop_pc' = "returned"
    /\ UNCHANGED <<ap_task_queue, ap_workers, ap_wpc, ap_wtask, ap_result_cache, ap_submitted>>

(***************************************************************************)
(* C30 - stop.  A stop() called on a processor whose workers were started  *)
(* eventually returns, with every worker that was started terminated and   *)
(* the result of every task submitted before the stop() in the result      *)
(* cache.                                                                  *)
(***************************************************************************)
StopCompleted ==
    /\ ap_stop_pc = "returned"
    /\ \A w \in StartedWorkers : ap_wpc[w] = "terminated"
    /\ \A t \in PTaskIds : ap_submitted[t] = "early" => t \in ap_result_cache

C30_StopCompletes ==
    (ap_stop_pc = "awaiting" /\ StartedWorkers # {}) ~> StopCompleted

(***************************************************************************)
(* Specifications                                                          *)
(***************************************************************************)
GovIdle == InitGov
BatchIdle == InitBatchWith(1)
EmbIdle == InitEmbWith("cpu", << >>, 1)
DedupIdle == InitDedupWith(<< >>)
KGIdle == InitKG
RRFIdle == InitRRFWith(FALSE, << >>, << >>)
UploadIdle == InitUpload
SearchIdle == InitSearchWith(NoSearchEnv, similarity_threshold)
ExtractIdle == InitExtractWith(<< >>)
ParseIdle == InitParseWith(TRUE, NoReply)
OptIdle == InitOptWith(<< >>, << >>)
ProcIdle == InitProc

NextGov ==
    \/ /\ \E c \in CoreSamples, s \in ScoreSamples, m \in MemoryGbSamples, g \in BOOLEAN :
             Initialize(c, s, m, g)
       /\ UNCHANGED notGov
    \/ /\ \E c \in CpuSamples, m \in MemorySamples, g \in GpuSamples : MonitorCycle(c, m, g)
       /\ UNCHANGED notGov
    \/ /\ \E t \in TaskIds : SubmitTask(t)
       /\ UNCHANGED notGov
    \/ /\ \E t \in TaskIds : TaskStart(t)
       /\ UNCHANGED notGov
    \/ /\ \E t \in TaskIds, r \in BOOLEAN : TaskExec(t, r)
       /\ UNCHANGED notGov
    \/ /\ \E t \in TaskIds : TaskSetStatus(t)
       /\ UNCHANGED notGov
    \/ /\ \E t \in TaskIds : TaskCleanup(t)
       /\ UNCHANGED notGov
    \/ /\ \E t \in TaskIds : CancelTask(t)
       /\ UNCHANGED notGov
    \/ /\ \E expired \in SUBSET TaskIds : CleanupExpiredTasks(expired)
       /\ UNCHANGED notGov
    \/ /\ ForceConservativeMode
       /\ UNCHANGED notGov
    \/ /\ RebuildThreadPool
       /\ UNCHANGED notGov

InitSpecGov == InitGov /\ BatchIdle /\ EmbIdle /\ DedupIdle /\ KGIdle /\ RRFIdle /\ UploadIdle /\ SearchIdle /\ ExtractIdle /\ ParseIdle /\ OptIdle /\ ProcIdle

SpecGov == InitSpecGov /\ [][NextGov]_vars

\* every thread that can take a step eventually takes one
SpecGovLive == InitSpecGov /\ [][NextGov]_vars /\ WF_vars(NextGov)

NextBatch ==
    \/ /\ \E t \in BTaskIds : SubmitBatchTask(t)
       /\ UNCHANGED notBatch
    \/ /\ \E w \in Workers : WorkerGet(w)
       /\ UNCHANGED notBatch
    \/ /\ \E w \in Workers : WorkerEnter(w)
       /\ UNCHANGED notBatch
    \/ /\ \E w \in Workers : WorkerWaitDone(w)
       /\ UNCHANGED notBatch
    \/ /\ Tick
       /\ UNCHANGED notBatch

InitSpecBatch == InitBatch /\ GovIdle /\ EmbIdle /\ DedupIdle /\ KGIdle /\ RRFIdle /\ UploadIdle /\ SearchIdle /\ ExtractIdle /\ ParseIdle /\ OptIdle /\ ProcIdle

SpecBatch == InitSpecBatch /\ [][NextBatch]_vars

NextEmb ==
    \/ /\ EmbedBatch
       /\ UNCHANGED notEmb
    \/ /\ EmbedBatchFails
       /\ UNCHANGED notEmb

InitSpecEmb == InitEmb /\ GovIdle /\ BatchIdle /\ DedupIdle /\ KGIdle /\ RRFIdle /\ UploadIdle /\ SearchIdle /\ ExtractIdle /\ ParseIdle /\ OptIdle /\ ProcIdle

SpecEmb == InitSpecEmb /\ [][NextEmb]_vars

NextDedup ==
    \/ /\ DedupOnce
       /\ UNCHANGED notDedup
    \/ /\ DedupTwice
       /\ UNCHANGED notDedup

InitSpecDedup == InitDedup /\ GovIdle /\ BatchIdle /\ EmbIdle /\ KGIdle /\ RRFIdle /\ UploadIdle /\ SearchIdle /\ ExtractIdle /\ ParseIdle /\ OptIdle /\ ProcIdle

SpecDedup == InitSpecDedup /\ [][NextDedup]_vars

NextKG ==
    \/ /\ \E f \in FileIds, all_entities \in KgEntityLists, all_relations \in KgRelationLists :
             BuildKnowledgeGraph(f, all_entities, all_relations)
       /\ UNCHANGED notKG
    \/ /\ \E ok \in BOOLEAN : SaveEntity(ok)
       /\ UNCHANGED notKG
    \/ /\ \E ok \in BOOLEAN : SaveRelation(ok)
       /\ UNCHANGED notKG
    \/ /\ SaveDone
       /\ UNCHANGED notKG
    \/ /\ \E f \in FileIds, done \in 0..2 : DeleteGraphData(f, done)
       /\ UNCHANGED notKG

InitSpecKG == InitKG /\ GovIdle /\ BatchIdle /\ EmbIdle /\ DedupIdle /\ RRFIdle /\ UploadIdle /\ SearchIdle /\ ExtractIdle /\ ParseIdle /\ OptIdle /\ ProcIdle

SpecKG == InitSpecKG /\ [][NextKG]_vars

NextRRF ==
    \/ /\ VectorSearch
       /\ UNCHANGED notRRF
    \/ /\ VectorSearchAgain
       /\ UNCHANGED notRRF

InitSpecRRF == InitRRF /\ GovIdle /\ BatchIdle /\ EmbIdle /\ DedupIdle /\ KGIdle /\ UploadIdle /\ SearchIdle /\ ExtractIdle /\ ParseIdle /\ OptIdle /\ ProcIdle

SpecRRF == InitSpecRRF /\ [][NextRRF]_vars

NextUpload ==
    \/ /\ \E f \in UploadIds : UploadFile(f)
       /\ UNCHANGED notUp
    \/ /\ \E f \in UploadIds, exists \in BOOLEAN : ProcessFileStart(f, exists)
       /\ UNCHANGED notUp
    \/ /\ \E f \in UploadIds, ok \in BOOLEAN : TextExtracted(f, ok)
       /\ UNCHANGED notUp
    \/ /\ \E f \in UploadIds : TimeoutHandler(f)
       /\ UNCHANGED notUp
    \/ /\ \E f \in UploadIds, ok \in BOOLEAN : ProcessFileEnd(f, ok)
       /\ UNCHANGED notUp
    \/ /\ \E c \in CoreSamples, s \in ScoreSamples, m \in MemoryGbSamples, g \in BOOLEAN :
             Initialize(c, s, m, g)
       /\ UNCHANGED <<notGov>>
    \/ /\ \E c \in CpuSamples, m \in MemorySamples, g \in GpuSamples : MonitorCycle(c, m, g)
       /\ UNCHANGED <<notGov>>

InitSpecUpload == InitUpload /\ GovIdle /\ BatchIdle /\ EmbIdle /\ DedupIdle /\ KGIdle /\ RRFIdle /\ SearchIdle /\ ExtractIdle /\ ParseIdle /\ OptIdle /\ ProcIdle

SpecUpload == InitSpecUpload /\ [][NextUpload]_vars

NextSearch ==
    \/ /\ Search
       /\ UNCHANGED notSearch

InitSpecSearch == InitSearch /\ GovIdle /\ BatchIdle /\ EmbIdle /\ DedupIdle /\ KGIdle /\ RRFIdle /\ UploadIdle /\ ExtractIdle /\ ParseIdle /\ OptIdle /\ ProcIdle

SpecSearch == InitSpecSearch /\ [][NextSearch]_vars

NextExtract ==
    \/ /\ BuildFromUnits
       /\ UNCHANGED notExtract

InitSpecExtract == InitExtract /\ GovIdle /\ BatchIdle /\ EmbIdle /\ DedupIdle /\ KGIdle /\ RRFIdle /\ UploadIdle /\ SearchIdle /\ ParseIdle /\ OptIdle /\ ProcIdle

SpecExtract == InitSpecExtract /\ [][NextExtract]_vars

NextParse ==
    \/ /\ \E call_ok \in BOOLEAN : ExtractEntitiesFromText(call_ok)
       /\ UNCHANGED notParse

InitSpecParse == InitParse /\ GovIdle /\ BatchIdle /\ EmbIdle /\ DedupIdle /\ KGIdle /\ RRFIdle /\ UploadIdle /\ SearchIdle /\ ExtractIdle /\ OptIdle /\ ProcIdle

SpecParse == InitSpecParse /\ [][NextParse]_vars

NextOpt ==
    \/ /\ OptimizeRelationsCall
       /\ UNCHANGED notOpt

InitSpecOpt == InitOpt /\ GovIdle /\ BatchIdle /\ EmbIdle /\ DedupIdle /\ KGIdle /\ RRFIdle /\ UploadIdle /\ SearchIdle /\ ExtractIdle /\ ParseIdle /\ ProcIdle

SpecOpt == InitSpecOpt /\ [][NextOpt]_vars

NextProc ==
    \/ /\ \E num_workers \in NumWorkersSamples : StartWorkers(num_workers)
       /\ UNCHANGED notProc
    \/ /\ \E t \in PTaskIds : ProcessorSubmitTask(t)
       /\ UNCHANGED notProc
    \/ /\ \E w \in WorkerInstances : WorkerTakeItem(w)
       /\ UNCHANGED notProc
    \/ /\ \E w \in WorkerInstances : WorkerStoreResult(w)
       /\ UNCHANGED notProc
    \/ /\ Stop
       /\ UNCHANGED notProc
    \/ /\ StopReturn
       /\ UNCHANGED notProc

InitSpecProc == InitProc /\ GovIdle /\ BatchIdle /\ EmbIdle /\ DedupIdle /\ KGIdle /\ RRFIdle /\ UploadIdle /\ SearchIdle /\ ExtractIdle /\ ParseIdle /\ OptIdle

SpecProc == InitSpecProc /\ [][NextProc]_vars

\* the event loop runs every coroutine that can take a step
SpecProcLive == InitSpecProc /\ [][NextProc]_vars /\ WF_vars(NextProc)

====
